---- MODULE Spec2Model ----
(***************************************************************************)
(* A model of indyjo/cafs: the stream shuffler (remotesync/shuffle), the   *)
(* receiver side of the remote-sync protocol (remotesync/receive.go), the  *)
(* wishlist bit writer and chunk reader (remotesync/remotesync.go) and the *)
(* test harness that runs one session (remotesync/remotesync_test.go).     *)
(* The chunk store (package ram) and the shuffling sender (WriteChunkData) *)
(* are not part of the sources at hand; they are modelled from the         *)
(* specification and marked so where they are defined.                     *)
(***************************************************************************)
EXTENDS Integers, Sequences, FiniteSets, TLC

(***************************************************************************)
(* Bounds of the model.                                                    *)
(***************************************************************************)
\* Longest permutation of the shuffler-only specifications.
MaxPermLen == 3
\* Number of distinct data values of the shuffler-only specifications.
NVals == 2
\* Longest input of the stream shuffler round trip.
MaxStreamLen == 4
\* Number of Put calls of the raw shuffler pair.
MaxRawLen == 7
\* Number of distinct chunk keys (chunk contents) of a session.
NKeys == 2
\* Most chunks of a source file whose manifests are enumerated in full.
MaxChunks == 3
\* Length of the longest manifest of the wishlist specification (more than 8 bits).
MaxLongChunks == 9
\* Longest permutation of a session.
MaxK == 3
\* The windowSize given to NewBuilder: the capacity of the memo queue.
WindowSize == 2
\* The windowSize testWithParams gives to NewBuilder, for the session run over
\* synchronous pipes.
SyncWindowSize == 8
\* The chunk store alone: its distinct chunks, its capacity in bytes, and the
\* most handles its clients hold at a time.
NStoreKeys == 3
Capacity == 4
MaxHandles == 3
\* Longest file and longest permutation of a session that may be disposed of
\* at any moment.
MaxDisposeChunks == 2
MaxDisposeK == 2
\* The SyncInfo encoded as JSON: the bytes of a key (32 in the program), the
\* longest chunk list and the longest permutation.
SKeyLen == 2
MaxJsonChunks == 2
MaxJsonK == 2
\* WriteRequestedChunks alone: the chunks of a short file, the wishlist bytes.
MaxSendChunks == 2
MaxWishLen == 2
\* Permutation.Inverse alone: the longest permutation.
MaxInvLen == 5
\* ReadFromLegacyStream alone: the records of the longest stream.
MaxLegacyLen == 2

(***************************************************************************)
(* Values that travel through a shuffler.  Go's nil interface value is     *)
(* Nil; every other value is a record, so that values of different kinds   *)
(* compare unequal.                                                        *)
(***************************************************************************)
Nil == [tag |-> "nil"]

\* The rune '_' the stream shuffler test uses as a placeholder.
TestPlaceholder == [tag |-> "_"]

Vals == {[v |-> i] : i \in 1..NVals}

\* All permutations of 0..k-1, as sequences indexed 1..k (Go index + 1).
Perms(k) == {p \in [1..k -> 0..(k-1)] : \A i, j \in 1..k : i # j => p[i] # p[j]}

PermsUpTo(n) == UNION {Perms(k) : k \in 1..n}

RECURSIVE SeqsOfLen(_, _)
SeqsOfLen(S, n) ==
    IF n = 0 THEN {<<>>}
    ELSE {Append(s, e) : s \in SeqsOfLen(S, n - 1), e \in S}

SeqsUpTo(S, n) == UNION {SeqsOfLen(S, m) : m \in 0..n}

(***************************************************************************)
(* shuffle.go: Permutation.Inverse.  The loop `for i, j := range p` writes *)
(* inv[j] = (len(p) - 1 + i) % len(p), in order of i.                      *)
(***************************************************************************)
InverseEntryOffByOne(k, i) == i % k

InverseEntry(k, i) == (k - 1 + i) % k

RECURSIVE InverseFrom(_, _, _)
InverseFrom(p, inv, i) ==
    IF i >= Len(p) THEN inv
    ELSE InverseFrom(p, [inv EXCEPT ![p[i + 1] + 1] = InverseEntry(Len(p), i)], i + 1)

\* The inverse in the usual sense: inv[p[i]] = i.
InversePlain(p) == [j \in 1..Len(p) |-> CHOOSE i \in 0..(Len(p) - 1) : p[i + 1] = j - 1]

Inverse(p) == InverseFrom(p, [j \in 1..Len(p) |-> 0], 0)

(***************************************************************************)
(* shuffle.go: Shuffler.  buffer starts as k nil values, idx as 0.         *)
(***************************************************************************)
NewShuffler(p) == [perm |-> p, buffer |-> [j \in 1..Len(p) |-> Nil], idx |-> 0]

\* Shuffler.Put: the shuffler after the call (s) and the value returned (r).
ShufflerPutReadsBeforeWrite(s, v) ==
    LET i == s.idx
        next == IF i + 1 = Len(s.buffer) THEN 0 ELSE i + 1
    IN  [s |-> [s EXCEPT !.idx = next, !.buffer[s.perm[i + 1] + 1] = v],
         r |-> s.buffer[i + 1]]

ShufflerPut(s, v) ==
    LET i == s.idx
        next == IF i + 1 = Len(s.buffer) THEN 0 ELSE i + 1
        buf == [s.buffer EXCEPT ![s.perm[i + 1] + 1] = v]
    IN  [s |-> [s EXCEPT !.idx = next, !.buffer = buf], r |-> buf[i + 1]]

ShufflerLength(s) == Len(s.buffer)

(***************************************************************************)
(* shuffle.go: the apply functions of the two stream shufflers.  The value *)
(* handed to the ConsumeFunc, or Nil when the ConsumeFunc is not called.   *)
(***************************************************************************)
\* NewStreamShuffler: nil becomes the placeholder, the consumer is always called.
ApplyForwardKeepsNil(placeholder, v) == v

ApplyForward(placeholder, v) == IF v = Nil THEN placeholder ELSE v

\* NewInverseStreamShuffler: nil and the placeholder are not forwarded.
ApplyInverseForwardsPlaceholder(placeholder, v) == v

ApplyInverse(placeholder, v) == IF v = Nil \/ v = placeholder THEN Nil ELSE v

\* What a consumer that collects its arguments holds after one more call.
Collect(out, v) == IF v = Nil THEN out ELSE Append(out, v)

\* streamShuffler.End with a collecting consumer: Length()-1 times Put(nil).
RECURSIVE EndForwardFrom(_, _, _, _)
EndForwardFrom(s, placeholder, out, i) ==
    IF i >= ShufflerLength(s) - 1 THEN [s |-> s, out |-> out]
    ELSE LET put == ShufflerPut(s, Nil)
         IN  EndForwardFrom(put.s, placeholder,
                            Append(out, ApplyForward(placeholder, put.r)), i + 1)

RECURSIVE EndInverseFrom(_, _, _, _)
EndInverseFrom(s, placeholder, out, i) ==
    IF i >= ShufflerLength(s) - 1 THEN [s |-> s, out |-> out]
    ELSE LET put == ShufflerPut(s, Nil)
         IN  EndInverseFrom(put.s, placeholder,
                            Collect(out, ApplyInverse(placeholder, put.r)), i + 1)

(***************************************************************************)
(* Chunks.  A chunk is identified by its key (the hash of its bytes), so   *)
(* its size is a function of the key.  The zero key never names a chunk.   *)
(***************************************************************************)
Keys == 1..NKeys

emptyKey == 0

SizeOf(key) == key

ChunkInfoOf(key) == [Key |-> key, Size |-> SizeOf(key)]

\* The placeholder WriteWishList hands to its shuffler.  It carries the empty
\* key and differs from the zero ChunkInfo, which only a closed queue yields.
emptyChunkInfo == [Key |-> emptyKey, Size |-> -1]

\* receive.go: var zeroMemo = memo{}
zeroMemo == [ci |-> [Key |-> 0, Size |-> 0], file |-> Nil, requested |-> FALSE]

\* receive.go: var placeholder interface{} = struct{}{}
placeholder == [tag |-> "placeholder"]

\* A cafs.File handle on the chunk with the given key.
Handle(key) == [file |-> key]

\* Manifests up to renaming of keys: a new key is always the smallest unused one.
RECURSIVE CanonicalOfLen(_)
CanonicalOfLen(n) ==
    IF n = 0 THEN {<<>>}
    ELSE {Append(s, key) : s \in CanonicalOfLen(n - 1), key \in Keys} \cap
         {s \in [1..n -> Keys] :
             \A i \in 1..n : s[i] = 1 \/ \E j \in 1..(i - 1) : s[j] = s[i] - 1}

ShortFiles == UNION {CanonicalOfLen(n) : n \in 0..MaxChunks}

\* Longer files: keys 1, 2, 1, 2, ...
Alternating(n) == [i \in 1..n |-> IF i % 2 = 1 THEN 1 ELSE IF NKeys > 1 THEN 2 ELSE 1]

LongFiles == {Alternating(MaxLongChunks - 1), Alternating(MaxLongChunks)}

\* SyncInfo.SetChunksFromFile: one ChunkInfo per chunk, in file order.
SetChunksFromFile(file) == [i \in 1..Len(file) |-> ChunkInfoOf(file[i])]

(***************************************************************************)
(* remotesync.go: bitWriter.  buf is one byte; a full byte is written out. *)
(***************************************************************************)
NewBitWriter == [n |-> 0, buf |-> 0]

\* WriteBit: the writer after the call (w) and the bytes written to w.w (out).
WriteBitLsbFirst(w, b) ==
    LET buf == (w.buf + (IF b THEN 2 ^ w.n ELSE 0)) % 256
    IN  IF w.n + 1 = 8 THEN [w |-> [n |-> 0, buf |-> 0], out |-> <<buf>>]
        ELSE [w |-> [n |-> w.n + 1, buf |-> buf], out |-> <<>>]

WriteBit(w, b) ==
    LET buf == (w.buf * 2 + (IF b THEN 1 ELSE 0)) % 256
    IN  IF w.n + 1 = 8 THEN [w |-> [n |-> 0, buf |-> buf], out |-> <<buf>>]
        ELSE [w |-> [n |-> w.n + 1, buf |-> buf], out |-> <<>>]

\* Flush: WriteBit(false) until a byte boundary.
RECURSIVE FlushFrom(_, _)
FlushFrom(w, out) ==
    IF w.n = 0 THEN [w |-> w, out |-> out]
    ELSE LET r == WriteBit(w, FALSE) IN FlushFrom(r.w, out \o r.out)

\* A Flush that writes a padding byte even at a byte boundary.
FlushWritesAtBoundary(w) ==
    IF w.n = 0 THEN [w |-> w, out |-> <<0>>] ELSE FlushFrom(w, <<>>)

Flush(w) == FlushFrom(w, <<>>)

\* The bits of a wishlist byte as the sender reads them: bit 7 first
\* (forEachChunk: 0 != (b & 0x80), then b <<= 1).
BitsOfByte(b) == [i \in 1..8 |-> (b \div (2 ^ (8 - i))) % 2 = 1]

(***************************************************************************)
(* receive.go: the memo consumeFunc builds for a ChunkInfo leaving the     *)
(* shuffler, given the keys requested so far and the keys in the store.    *)
(* got tells whether storage.Get returned a handle.                        *)
(***************************************************************************)
MakeMemoForgetsHeld(ci, req, present) ==
    IF ci.Key = emptyKey \/ ci.Key \in req
    THEN [mem |-> [ci |-> ci, file |-> Nil, requested |-> FALSE], req |-> req, got |-> FALSE]
    ELSE IF ci.Key \notin present
    THEN [mem |-> [ci |-> ci, file |-> Nil, requested |-> TRUE],
          req |-> req \cup {ci.Key}, got |-> FALSE]
    ELSE [mem |-> [ci |-> ci, file |-> Handle(ci.Key), requested |-> FALSE],
          req |-> req, got |-> TRUE]

MakeMemoForgetsRequested(ci, req, present) ==
    IF ci.Key = emptyKey \/ ci.Key \in req
    THEN [mem |-> [ci |-> ci, file |-> Nil, requested |-> FALSE], req |-> req, got |-> FALSE]
    ELSE IF ci.Key \notin present
    THEN [mem |-> [ci |-> ci, file |-> Nil, requested |-> TRUE], req |-> req, got |-> FALSE]
    ELSE [mem |-> [ci |-> ci, file |-> Handle(ci.Key), requested |-> FALSE],
          req |-> req \cup {ci.Key}, got |-> TRUE]

MakeMemo(ci, req, present) ==
    IF ci.Key = emptyKey \/ ci.Key \in req
    THEN [mem |-> [ci |-> ci, file |-> Nil, requested |-> FALSE], req |-> req, got |-> FALSE]
    ELSE IF ci.Key \notin present
    THEN [mem |-> [ci |-> ci, file |-> Nil, requested |-> TRUE],
          req |-> req \cup {ci.Key}, got |-> FALSE]
    ELSE [mem |-> [ci |-> ci, file |-> Handle(ci.Key), requested |-> FALSE],
          req |-> req \cup {ci.Key}, got |-> TRUE]

(***************************************************************************)
(* The chunk store as a session uses it (modelled from the specification): *)
(* the keys present and, per key, the number of live handles.              *)
(***************************************************************************)
\* FileStorage.Get: a handle and one more reference, or ErrNotFound.
StoreGetKeepsCount(present, refs, key) == [found |-> key \in present, refs |-> refs]

StoreGet(present, refs, key) ==
    IF key \in present
    THEN [found |-> TRUE, refs |-> [refs EXCEPT ![key] = @ + 1]]
    ELSE [found |-> FALSE, refs |-> refs]

\* File.Dispose of a handle (Nil: no handle, nothing to do).
StoreDisposeKeepsCount(refs, h) == refs

StoreDispose(refs, h) == IF h = Nil THEN refs ELSE [refs EXCEPT ![h.file] = @ - 1]

\* streamShuffler.End with a consumer that disposes the handles it receives
\* (the deferred unshuffler.WithFunc(...).End() of the reconstruct task).
RECURSIVE EndDispose(_, _, _)
EndDispose(s, refs, i) ==
    IF i >= ShufflerLength(s) - 1 THEN [s |-> s, refs |-> refs]
    ELSE LET put == ShufflerPut(s, Nil)
         IN  EndDispose(put.s, StoreDispose(refs, ApplyInverse(placeholder, put.r)), i + 1)

\* The references a File holds: one per occurrence of a chunk.
FileRefs(file) == [key \in Keys |-> Cardinality({i \in DOMAIN file : file[i] = key})]

\* Taking or duplicating a File handle, and File.Dispose.
AddRefs(refs, file) == [key \in Keys |-> refs[key] + FileRefs(file)[key]]

DropRefs(refs, file) == [key \in Keys |-> refs[key] - FileRefs(file)[key]]

\* FileStorage.Create: a Temporary with no chunk emitted and none pending.
NewTemporary == [chunks |-> <<>>, pending |-> <<>>]

\* The chunk a Temporary has buffered is emitted: it is inserted into the store,
\* or found there, and the Temporary holds one more reference to it.
TempEmit(st) ==
    IF st.temp.pending = <<>> THEN st
    ELSE LET key == st.temp.pending[1]
         IN  [st EXCEPT !.temp = [chunks |-> Append(st.temp.chunks, key), pending |-> <<>>],
                        !.present = @ \cup {key},
                        !.refs[key] = @ + 1]

\* Temporary.Write of the bytes of one chunk: the chunker finds the boundary
\* that ends the bytes buffered before, and buffers the bytes written.
TempWrite(st, key) == [TempEmit(st) EXCEPT !.temp.pending = <<key>>]

\* Temporary.Close: the trailing chunk is emitted.
TempClose(st) == TempEmit(st)

VARIABLES
    \* shuffle_test.go TestShuffler: a Shuffler and its inverse, fed in lockstep
    rawPerm,      \* the permutation under test
    forward,      \* NewShuffler(perm)
    inverse,      \* NewShuffler(perm.Inverse())
    rawIn,        \* the values put into forward so far
    rawMid,       \* what forward.Put(v) returned so far
    rawOut,       \* what inverse.Put(forward.Put(v)) returned so far
    \* shuffle_test.go TestStreamShuffler: shuffleString twice
    strPerm,      \* the permutation under test
    original,     \* the input sequence
    strPos,       \* how many elements of the current input have been put
    strPhase,     \* "shuffle", "unshuffle" or "done"
    strShuffler,  \* the Shuffler inside the current StreamShuffler
    shuffled,     \* what the forward consumer received
    unshuffled,   \* what the inverse consumer received
    \* one session: the source file and the Builder (receive.go)
    fileA,        \* the source file: the keys of its chunks, in file order
    syncinf,      \* Builder.syncinf: [Chunks, Perm]
    done,         \* Builder.done is closed
    memos,        \* Builder.memos: the memos in the channel
    memosClosed,  \* Builder.memos is closed
    disposed,     \* Builder.disposed
    started,      \* Builder.started
    \* the receiver's store
    presentB,     \* the keys of the chunks in the store
    refsB,        \* per key, the reference count of the chunk
    \* the task running WriteWishList
    wlPc,         \* "start", "put", "enqueue" or "returned"
    wlIdx,        \* the number of shuffler Put calls made (Put and End)
    wlShuffler,   \* the Shuffler of WriteWishList's StreamShuffler
    requested,    \* the map requested: the keys marked
    wlMem,        \* consumeFunc's mem, between building and enqueuing it
    bitWriter,    \* the bitWriter
    wlErr,        \* what WriteWishList returned ("running" before)
    pipe1,        \* the wishlist bytes written and not yet read
    pipe1State,   \* "open", "eof" (closed) or "error" (closed with an error)
    \* what WriteWishList has done so far (history)
    lookups,      \* per consumeFunc call: the ChunkInfo, and whether its key was in the store
    wishBits,     \* the bits handed to WriteBit, in order
    wishOut,      \* the bytes written to the wishlist writer, in order
    nEnqueued,    \* the number of memos sent to the channel
    \* the sender's store and the task running the sender
    refsA,        \* per key, the reference count of the chunk in the sender's store
    sPc,          \* "start", "run", "returned" or "exited"
    sIdx,         \* the number of shuffler Put calls made (Put and End)
    sShuffler,    \* the Shuffler of the sender's StreamShuffler
    sBits,        \* the bits of the current wishlist byte not yet consumed
    sErr,         \* what the sender returned ("running" before)
    pipe2,        \* the chunk records written and not yet read
    pipe2State,   \* "open", "eof" (closed) or "error" (closed with an error)
    \* the task running ReconstructFileFromRequestedChunks
    recPc,        \* "select", "read" or "returned"
    recMem,       \* the memo of the current iteration, while it reads a chunk
    unshuffler,   \* the Shuffler of the inverse StreamShuffler
    temp,         \* the Temporary: its emitted chunks and its pending chunk
    recErr,       \* what Reconstruct... returned ("running" before)
    fileB,        \* the file returned: the keys of its chunks (<<>> if none)
    \* the caller of the session and its deferred disposals
    hPc,          \* "recon", "builder", "disposing" or "done"
    dPc,          \* Builder.Dispose: "idle", "drain" or "returned"
    \* a chunk store alone, and its clients
    stPresent,    \* the keys of the chunks in the store
    stRefs,       \* per key, the reference count kept by the store
    stLru,        \* the keys in the store, least recently used first
    stHeld,       \* per key, the number of live handles the clients hold
    stLast,       \* the last operation: [op, key, result, evicted]
    \* TestSyncInfoJSON: a SyncInfo encoded as JSON and decoded again
    jsIn,         \* the SyncInfo s that is encoded
    jsText,       \* the JSON text b
    jsOut,        \* the SyncInfo s2 the text is decoded into
    jsPc,         \* "marshal", "unmarshal", "done" or "failed"
    \* remotesync.go WriteRequestedChunks alone: a file, a wishlist, a writer
    fcFile,       \* the file to send: the keys of its chunks, in file order
    fcCb,         \* whether a TransferStatusCallback was given
    fcWishIn,     \* the bytes of the wishlist as given
    fcWish,       \* the bytes of the wishlist not yet read
    fcWishEnd,    \* what reading past the last byte gives: "eof" or "error"
    fcByte,       \* forEachChunk's b
    fcBit,        \* forEachChunk's bit
    fcIter,       \* the number of chunks the iterator has passed
    bytesToTransfer,   \* WriteRequestedChunks' bytesToTransfer
    bytesTransferred,  \* WriteRequestedChunks' bytesTransferred
    fcOut,        \* the chunk records written to w, in order
    fcReports,    \* the calls of the callback: <<bytesToTransfer, bytesTransferred>>
    fcErr,        \* what WriteRequestedChunks returned ("running" before)
    fcPc,         \* "start", "loop" or "returned"
    \* shuffle.go Permutation.Inverse, applied twice
    invP,         \* a permutation p
    invQ,         \* p.Inverse() (<<>> before the call)
    invR,         \* p.Inverse().Inverse() (<<>> before the call)
    invPc,        \* the number of Inverse calls made
    \* SyncInfo.ReadFromLegacyStream alone
    lgIn,         \* the records of the stream as given
    lgStream,     \* the records of the stream not yet read
    lgEnd,        \* how the stream ends after them
    lgInfo,       \* the SyncInfo s: [Chunks, Perm]
    lgErr,        \* what ReadFromLegacyStream returned ("running" before)
    lgPc          \* "new", "read" or "returned"

rawVars == <<rawPerm, forward, inverse, rawIn, rawMid, rawOut>>
strVars == <<strPerm, original, strPos, strPhase, strShuffler, shuffled, unshuffled>>
builderVars == <<fileA, syncinf, done, memos, memosClosed, disposed, started>>
storeBVars == <<presentB, refsB>>
wlVars == <<wlPc, wlIdx, wlShuffler, requested, wlMem, bitWriter, wlErr, pipe1, pipe1State>>
wlHistory == <<lookups, wishBits, wishOut, nEnqueued>>
sessionVars == <<builderVars, storeBVars, wlVars, wlHistory>>
senderVars == <<refsA, sPc, sIdx, sShuffler, sBits, sErr, pipe2, pipe2State>>
reconVars == <<recPc, recMem, unshuffler, temp, recErr, fileB>>
callerVars == <<hPc, dPc>>
peerVars == <<senderVars, reconVars, callerVars>>
stVars == <<stPresent, stRefs, stLru, stHeld, stLast>>
jsVars == <<jsIn, jsText, jsOut, jsPc>>
fcVars == <<fcFile, fcCb, fcWishIn, fcWish, fcWishEnd, fcByte, fcBit, fcIter,
            bytesToTransfer, bytesTransferred, fcOut, fcReports, fcErr, fcPc>>
invVars == <<invP, invQ, invR, invPc>>
lgVars == <<lgIn, lgStream, lgEnd, lgInfo, lgErr, lgPc>>
aloneVars == <<rawVars, strVars, stVars, jsVars, fcVars, invVars, lgVars>>
vars == <<rawVars, strVars, stVars, jsVars, fcVars, invVars, lgVars, sessionVars, peerVars>>
notRawVars == <<strVars, stVars, jsVars, fcVars, invVars, lgVars, sessionVars, peerVars>>
notStrVars == <<rawVars, stVars, jsVars, fcVars, invVars, lgVars, sessionVars, peerVars>>
notStVars == <<rawVars, strVars, jsVars, fcVars, invVars, lgVars, sessionVars, peerVars>>
notJsVars == <<rawVars, strVars, stVars, fcVars, invVars, lgVars, sessionVars, peerVars>>
notFcVars == <<rawVars, strVars, stVars, jsVars, invVars, lgVars, sessionVars, peerVars>>
notInvVars == <<rawVars, strVars, stVars, jsVars, fcVars, lgVars, sessionVars, peerVars>>
notLgVars == <<rawVars, strVars, stVars, jsVars, fcVars, invVars, sessionVars, peerVars>>
notSessionVars == <<aloneVars, peerVars>>

(***************************************************************************)
(* Values of the variables a specification does not use.                   *)
(***************************************************************************)
RawIdle ==
    /\ rawPerm = <<0>>
    /\ forward = NewShuffler(<<0>>)
    /\ inverse = NewShuffler(<<0>>)
    /\ rawIn = <<>>
    /\ rawMid = <<>>
    /\ rawOut = <<>>

StrIdle ==
    /\ strPerm = <<0>>
    /\ original = <<>>
    /\ strPos = 0
    /\ strPhase = "done"
    /\ strShuffler = NewShuffler(<<0>>)
    /\ shuffled = <<>>
    /\ unshuffled = <<>>

\* No permutation is being inverted.
InvIdle ==
    /\ invP = <<0>>
    /\ invQ = <<>>
    /\ invR = <<>>
    /\ invPc = 2

\* No legacy stream is being read.
LgIdle ==
    /\ lgIn = <<>>
    /\ lgStream = <<>>
    /\ lgEnd = "eof"
    /\ lgInfo = [Chunks |-> <<>>, Perm |-> <<>>]
    /\ lgErr = "nil"
    /\ lgPc = "returned"

\* No WriteRequestedChunks call on its own.
FcIdle ==
    /\ fcFile = <<>>
    /\ fcCb = FALSE
    /\ fcWishIn = <<>>
    /\ fcWish = <<>>
    /\ fcWishEnd = "eof"
    /\ fcByte = 0
    /\ fcBit = 8
    /\ fcIter = 0
    /\ bytesToTransfer = 0
    /\ bytesTransferred = 0
    /\ fcOut = <<>>
    /\ fcReports = <<>>
    /\ fcErr = "nil"
    /\ fcPc = "returned"

\* No SyncInfo is being encoded.
JsIdle ==
    /\ jsIn = [Chunks |-> <<>>, Perm |-> <<>>]
    /\ jsText = <<>>
    /\ jsOut = [Chunks |-> <<>>, Perm |-> <<>>]
    /\ jsPc = "done"

StoreKeys == 1..NStoreKeys

StoreIdle ==
    /\ stPresent = {}
    /\ stRefs = [key \in StoreKeys |-> 0]
    /\ stLru = <<>>
    /\ stHeld = [key \in StoreKeys |-> 0]
    /\ stLast = [op |-> "none", key |-> 0, result |-> "ok", evicted |-> {}]

\* A Builder before WriteWishList, made for the SyncInfo [chunks, perm] of
\* `file`, with the store holding the chunks of `present`.
BuilderInitWith(file, chunks, perm, present) ==
    /\ fileA = file
    /\ syncinf = [Chunks |-> chunks, Perm |-> perm]
    /\ done = FALSE
    /\ memos = <<>>
    /\ memosClosed = FALSE
    /\ disposed = FALSE
    /\ started = FALSE
    /\ presentB = present
    /\ refsB = [key \in Keys |-> 0]
    /\ wlPc = "start"
    /\ wlIdx = 0
    /\ wlShuffler = NewShuffler(perm)
    /\ requested = {}
    /\ wlMem = zeroMemo
    /\ bitWriter = NewBitWriter
    /\ wlErr = "running"
    /\ pipe1 = <<>>
    /\ pipe1State = "open"
    /\ lookups = <<>>
    /\ wishBits = <<>>
    /\ wishOut = <<>>
    /\ nEnqueued = 0

\* A Builder made for the SyncInfo that SetChunksFromFile gives for `file`.
BuilderInit(file, perm, present) ==
    BuilderInitWith(file, SetChunksFromFile(file), perm, present)

\* The sender before it starts.
SenderInit(file, perm) ==
    /\ refsA = FileRefs(file)
    /\ sPc = "start"
    /\ sIdx = 0
    /\ sShuffler = NewShuffler(perm)
    /\ sBits = <<>>
    /\ sErr = "running"

\* The chunk stream: the records to read and how the stream ends after them.
StreamInit(recs, state) ==
    /\ pipe2 = recs
    /\ pipe2State = state

\* The reconstruct task before it starts.
ReconInit(perm) ==
    /\ recPc = "select"
    /\ recMem = zeroMemo
    /\ unshuffler = NewShuffler(Inverse(perm))
    /\ temp = NewTemporary
    /\ recErr = "running"
    /\ fileB = <<>>

\* The sender and the reconstruct task before they start, the pipe between
\* them empty.
TasksInit(file, perm) ==
    SenderInit(file, perm) /\ StreamInit(<<>>, "open") /\ ReconInit(perm)

\* The caller of the session at position h, Dispose not yet called.
CallerInit(h) ==
    /\ hPc = h
    /\ dPc = "idle"

\* The sender, the reconstruct task and the caller before they start.
PeerInit(file, perm) == TasksInit(file, perm) /\ CallerInit("recon")

SessionIdle == BuilderInit(<<>>, <<0>>, {}) /\ PeerInit(<<>>, <<0>>)

(***************************************************************************)
(* SpecShuffler: TestShuffler's loop body, w := inverse.Put(forward.Put(v)) *)
(***************************************************************************)
RawInit ==
    /\ rawPerm \in PermsUpTo(MaxPermLen)
    /\ forward = NewShuffler(rawPerm)
    /\ inverse = NewShuffler(Inverse(rawPerm))
    /\ rawIn = <<>>
    /\ rawMid = <<>>
    /\ rawOut = <<>>

RawPut(v) ==
    /\ Len(rawIn) < MaxRawLen
    /\ LET f == ShufflerPut(forward, v)
           g == ShufflerPut(inverse, f.r)
       IN  /\ forward' = f.s
           /\ inverse' = g.s
           /\ rawIn' = Append(rawIn, v)
           /\ rawMid' = Append(rawMid, f.r)
           /\ rawOut' = Append(rawOut, g.r)
    /\ UNCHANGED rawPerm
    /\ UNCHANGED notRawVars

InitShuffler == RawInit /\ StrIdle /\ SessionIdle /\ StoreIdle /\ JsIdle /\ InvIdle /\ LgIdle /\ FcIdle

NextShuffler == \E v \in Vals : RawPut(v)

SpecShuffler == InitShuffler /\ [][NextShuffler]_vars

(***************************************************************************)
(* SpecStream: TestStreamShuffler's testWith.  shuffleString puts every    *)
(* element of its input and then calls End; the first call shuffles the    *)
(* original, the second unshuffles what the first one collected.           *)
(***************************************************************************)
StrInit ==
    /\ strPerm \in PermsUpTo(MaxPermLen)
    /\ original \in SeqsUpTo(Vals, MaxStreamLen)
    /\ strPos = 0
    /\ strPhase = "shuffle"
    /\ strShuffler = NewShuffler(strPerm)
    /\ shuffled = <<>>
    /\ unshuffled = <<>>

\* streamShuffler.Put of NewStreamShuffler(perm, '_', f)
ShufflePut ==
    /\ strPhase = "shuffle"
    /\ strPos < Len(original)
    /\ LET put == ShufflerPut(strShuffler, original[strPos + 1])
       IN  /\ strShuffler' = put.s
           /\ shuffled' = Append(shuffled, ApplyForward(TestPlaceholder, put.r))
    /\ strPos' = strPos + 1
    /\ UNCHANGED <<strPerm, original, strPhase, unshuffled>>
    /\ UNCHANGED notStrVars

\* streamShuffler.End of the forward shuffler; the test goes on to unshuffle
ShuffleEnd ==
    /\ strPhase = "shuffle"
    /\ strPos = Len(original)
    /\ LET end == EndForwardFrom(strShuffler, TestPlaceholder, shuffled, 0)
       IN  shuffled' = end.out
    /\ strShuffler' = NewShuffler(Inverse(strPerm))
    /\ strPos' = 0
    /\ strPhase' = "unshuffle"
    /\ UNCHANGED <<strPerm, original, unshuffled>>
    /\ UNCHANGED notStrVars

\* streamShuffler.Put of NewInverseStreamShuffler(perm, '_', f)
UnshufflePut ==
    /\ strPhase = "unshuffle"
    /\ strPos < Len(shuffled)
    /\ LET put == ShufflerPut(strShuffler, shuffled[strPos + 1])
       IN  /\ strShuffler' = put.s
           /\ unshuffled' = Collect(unshuffled, ApplyInverse(TestPlaceholder, put.r))
    /\ strPos' = strPos + 1
    /\ UNCHANGED <<strPerm, original, strPhase, shuffled>>
    /\ UNCHANGED notStrVars

\* streamShuffler.End of the inverse shuffler
UnshuffleEnd ==
    /\ strPhase = "unshuffle"
    /\ strPos = Len(shuffled)
    /\ LET end == EndInverseFrom(strShuffler, TestPlaceholder, unshuffled, 0)
       IN  /\ strShuffler' = end.s
           /\ unshuffled' = end.out
    /\ strPhase' = "done"
    /\ UNCHANGED <<strPerm, original, strPos, shuffled>>
    /\ UNCHANGED notStrVars

InitStream == StrInit /\ RawIdle /\ SessionIdle /\ StoreIdle /\ JsIdle /\ InvIdle /\ LgIdle /\ FcIdle

NextStream == ShufflePut \/ ShuffleEnd \/ UnshufflePut \/ UnshuffleEnd

SpecStream == InitStream /\ [][NextStream]_vars

(***************************************************************************)
(* receive.go: Builder.WriteWishList, run in a goroutine that closes the   *)
(* wishlist pipe when it returns (remotesync_test.go, lines 98-104).       *)
(***************************************************************************)
NChunks == Len(syncinf.Chunks)

\* The number of consumeFunc calls of a complete run: nChunks Puts, then End.
NPositionsWithoutEnd == NChunks

NPositions == NChunks + Len(syncinf.Perm) - 1

\* b.start(): ErrDisposed if the Builder is disposed, else b.started is set.
BuilderStartIgnoresDisposed(d) == [err |-> "nil", started |-> TRUE]

BuilderStart(d) == IF d THEN [err |-> "disposed", started |-> FALSE]
                   ELSE [err |-> "nil", started |-> TRUE]

\* b.start(), and on success the setup up to the shuffler
WLStart ==
    /\ wlPc = "start"
    /\ IF BuilderStart(disposed).err # "nil"
       THEN /\ wlPc' = "returned"
            /\ wlErr' = BuilderStart(disposed).err
            /\ pipe1State' = "error"
            /\ UNCHANGED started
       ELSE /\ started' = BuilderStart(disposed).started
            /\ wlPc' = "put"
            /\ UNCHANGED <<wlErr, pipe1State>>
    /\ UNCHANGED <<fileA, syncinf, done, memos, memosClosed, disposed>>
    /\ UNCHANGED <<wlIdx, wlShuffler, requested, wlMem, bitWriter, pipe1>>
    /\ UNCHANGED <<storeBVars, wlHistory, notSessionVars>>

\* One shuffler.Put (of a ChunkInfo, or of nil inside End) and the first half
\* of consumeFunc: the memo is built, the store is asked for the chunk.
WLConsume ==
    /\ wlPc = "put"
    /\ wlIdx < NPositions
    /\ LET v == IF wlIdx < NChunks THEN syncinf.Chunks[wlIdx + 1] ELSE Nil
           put == ShufflerPut(wlShuffler, v)
           ci == ApplyForward(emptyChunkInfo, put.r)
           m == MakeMemo(ci, requested, presentB)
       IN  /\ wlShuffler' = put.s
           /\ wlMem' = m.mem
           /\ requested' = m.req
           /\ refsB' = IF m.got THEN StoreGet(presentB, refsB, ci.Key).refs ELSE refsB
           /\ lookups' = Append(lookups, [ci |-> ci, present |-> ci.Key \in presentB])
    /\ wlIdx' = wlIdx + 1
    /\ wlPc' = "enqueue"
    /\ UNCHANGED <<builderVars, presentB, bitWriter, wlErr, pipe1, pipe1State>>
    /\ UNCHANGED <<wishBits, wishOut, nEnqueued, notSessionVars>>

\* b.memos is a channel with a buffer of windowSize memos (NewBuilder): a send
\* proceeds when the buffer has room.
QueueAlwaysHasRoom(q) == TRUE

QueueHasRoom(q) == Len(q) < WindowSize

\* The second half of consumeFunc: the select that sends the memo or sees
\* done closed, then WriteBit.  An error makes WriteWishList return.
WLEnqueue ==
    /\ wlPc = "enqueue"
    /\ \/ /\ QueueHasRoom(memos)
          /\ memos' = Append(memos, wlMem)
          /\ nEnqueued' = nEnqueued + 1
          /\ LET r == WriteBit(bitWriter, wlMem.requested)
             IN  /\ bitWriter' = r.w
                 /\ pipe1' = pipe1 \o r.out
                 /\ wishOut' = wishOut \o r.out
          /\ wishBits' = Append(wishBits, wlMem.requested)
          /\ wlPc' = "put"
          /\ UNCHANGED <<refsB, wlErr, memosClosed, pipe1State>>
       \/ /\ done
          /\ refsB' = StoreDispose(refsB, wlMem.file)
          /\ wlErr' = IF wlIdx <= NChunks THEN "error from shuffler.Put: disposed"
                      ELSE "error from shuffler.End: disposed"
          /\ wlPc' = "returned"
          /\ memosClosed' = TRUE
          /\ pipe1State' = "error"
          /\ UNCHANGED <<memos, nEnqueued, bitWriter, pipe1, wishOut, wishBits>>
    /\ wlMem' = zeroMemo
    /\ UNCHANGED <<fileA, syncinf, done, disposed, started>>
    /\ UNCHANGED <<presentB, wlIdx, wlShuffler, requested, lookups, notSessionVars>>

\* After shuffler.End: bitWriter.Flush, the deferred close(b.memos), return nil.
WLFlush ==
    /\ wlPc = "put"
    /\ wlIdx = NPositions
    /\ LET r == Flush(bitWriter)
       IN  /\ bitWriter' = r.w
           /\ pipe1' = pipe1 \o r.out
           /\ wishOut' = wishOut \o r.out
    /\ memosClosed' = TRUE
    /\ wlErr' = "nil"
    /\ wlPc' = "returned"
    /\ pipe1State' = "eof"
    /\ UNCHANGED <<fileA, syncinf, done, memos, disposed, started>>
    /\ UNCHANGED <<storeBVars, wlIdx, wlShuffler, requested, wlMem>>
    /\ UNCHANGED <<lookups, wishBits, nEnqueued, notSessionVars>>

(***************************************************************************)
(* SpecWishList: WriteWishList alone.  The other end of the memo queue is  *)
(* a reader that takes a memo and disposes its file, as do both            *)
(* ReconstructFileFromRequestedChunks and Dispose; other users of the      *)
(* store make it evict unreferenced chunks.                                *)
(***************************************************************************)
QueueReader ==
    /\ memos # <<>>
    /\ memos' = Tail(memos)
    /\ refsB' = StoreDispose(refsB, Head(memos).file)
    /\ UNCHANGED <<fileA, syncinf, done, memosClosed, disposed, started>>
    /\ UNCHANGED <<presentB, wlVars, wlHistory, notSessionVars>>

\* An unreferenced chunk is evicted because the space is needed.
StoreEvict(key) ==
    /\ wlPc # "returned"
    /\ key \in presentB
    /\ refsB[key] = 0
    /\ presentB' = presentB \ {key}
    /\ UNCHANGED <<builderVars, refsB, wlVars, wlHistory, notSessionVars>>

InitWishList ==
    /\ \E file \in ShortFiles \cup LongFiles, perm \in PermsUpTo(MaxK), present \in SUBSET Keys :
           BuilderInit(file, perm, present)
    /\ PeerInit(<<>>, <<0>>)
    /\ RawIdle
    /\ StrIdle
    /\ StoreIdle
    /\ JsIdle /\ InvIdle /\ LgIdle /\ FcIdle

NextWishList ==
    \/ WLStart
    \/ WLConsume
    \/ WLEnqueue
    \/ WLFlush
    \/ QueueReader
    \/ \E key \in Keys : StoreEvict(key)

SpecWishList == InitWishList /\ [][NextWishList]_vars

(***************************************************************************)
(* C9: in the wishlist written by WriteWishList, the bit of a chunk (taken *)
(* in shuffled order) is 1 if and only if the chunk's key is not in the    *)
(* receiver's store at the moment of the lookup and the key has not        *)
(* appeared at an earlier position of the shuffled manifest.               *)
(***************************************************************************)
C9_WishlistBit ==
    \A i \in 1..Len(wishBits) :
        lookups[i].ci # emptyChunkInfo =>
            (wishBits[i] <=>
                /\ ~lookups[i].present
                /\ \A j \in 1..(i - 1) : lookups[j].ci.Key # lookups[i].ci.Key)

\* A complete wishlist with a key that is requested at its first position and
\* not at its second, and a key that is in the store and not requested.
C9_Witness ==
    /\ wlErr = "nil"
    /\ Len(syncinf.Perm) = 3
    /\ \E i, j \in 1..Len(wishBits) :
          /\ i < j
          /\ lookups[i].ci.Key = lookups[j].ci.Key
          /\ wishBits[i]
          /\ ~wishBits[j]
          /\ ~lookups[j].present
    /\ \E i \in 1..Len(wishBits) :
          /\ lookups[i].ci # emptyChunkInfo
          /\ lookups[i].present
          /\ ~wishBits[i]

\* ceil(n / 8)
CeilDiv8(n) == (n + 7) \div 8

BitOfWishlist(i) == BitsOfByte(wishOut[((i - 1) \div 8) + 1])[((i - 1) % 8) + 1]

(***************************************************************************)
(* C10 as stated: a WriteWishList call that returns without error has      *)
(* written exactly one bit per chunk of the manifest, so its output is     *)
(* exactly ceil(nChunks/8) bytes, for every permutation length k.          *)
(***************************************************************************)
C10_OneBitPerChunk ==
    wlErr = "nil" =>
        /\ Len(wishBits) = NChunks
        /\ Len(wishOut) = CeilDiv8(NChunks)

(***************************************************************************)
(* C10 amended: a WriteWishList call that returns without error has        *)
(* written exactly one bit per position of the shuffled manifest, that is  *)
(* nChunks + k - 1 bits (the k - 1 placeholder positions have bit 0), so   *)
(* its output is exactly ceil((nChunks + k - 1)/8) bytes, packed most      *)
(* significant bit first, the last byte padded with zero bits.             *)
(***************************************************************************)
C10_OneBitPerPosition ==
    wlErr = "nil" =>
        /\ Len(wishBits) = NChunks + Len(syncinf.Perm) - 1
        /\ Len(wishOut) = CeilDiv8(NChunks + Len(syncinf.Perm) - 1)
        /\ \A i \in 1..(8 * Len(wishOut)) :
              BitOfWishlist(i) = IF i <= Len(wishBits) THEN wishBits[i] ELSE FALSE
        /\ Cardinality({i \in 1..Len(wishBits) : lookups[i].ci = emptyChunkInfo})
               = Len(syncinf.Perm) - 1

\* Eight chunks and a permutation of length 2: nine bits, two bytes.
C10_Witness ==
    /\ wlErr = "nil"
    /\ NChunks = 8
    /\ Len(syncinf.Perm) = 2
    /\ Len(wishBits) = 9
    /\ Len(wishOut) = 2
    /\ \E i \in 1..8 : wishBits[i]

(***************************************************************************)
(* C2: for every permutation of length k >= 1 and every finite sequence x  *)
(* without nil and placeholder, shuffling x with NewStreamShuffler + End   *)
(* and unshuffling the result with NewInverseStreamShuffler + End hands    *)
(* the inverse consumer exactly x: same values, same order.                *)
(***************************************************************************)
C2_RoundTrip == strPhase = "done" => unshuffled = original

\* a round trip that finished, with a real permutation and an input shorter than it
C2_Witness ==
    /\ strPhase = "done"
    /\ Len(strPerm) = 3
    /\ strPerm # <<0, 1, 2>>
    /\ Len(original) = 2
    /\ original[1] # original[2]
    /\ Len(shuffled) = 4

(***************************************************************************)
(* C3: with forward = NewShuffler(p) and inverse = NewShuffler(p.Inverse())*)
(* the i-th call (from 0) of inverse.Put(forward.Put(x_i)) returns         *)
(* x_(i-(k-1)) for every i >= k-1; for p = [0] every call returns its own  *)
(* argument.                                                               *)
(***************************************************************************)
C3_DelayedIdentity ==
    LET k == Len(rawPerm)
    IN  /\ \A i \in 0..(Len(rawOut) - 1) :
               i >= k - 1 => rawOut[i + 1] = rawIn[i - (k - 1) + 1]
        /\ k = 1 => rawOut = rawIn

\* the buffer of a length-3 shuffler has gone round twice and returned real values
C3_Witness ==
    /\ Len(rawPerm) = 3
    /\ rawPerm # <<0, 1, 2>>
    /\ Len(rawOut) = 7
    /\ rawOut[3] # rawOut[4]
    /\ rawOut[7] = rawIn[5]

(***************************************************************************)
(* The sender, WriteChunkData(chunks, size, wishListReader, perm, w, cb),  *)
(* run in a goroutine that closes the chunk pipe when it returns           *)
(* (remotesync_test.go, lines 106-114).  It puts a handle of every chunk   *)
(* of the file through a forward StreamShuffler; for every shuffled        *)
(* position it reads one wishlist bit, writes the chunk if the position    *)
(* holds a chunk and the bit is 1, and disposes the handle.  Modelled     *)
(* from the specification: WriteChunkData is not in the sources at hand.   *)
(***************************************************************************)
\* ChunksOfFile(fileA): the sender's own reference to the file.
SenderStart ==
    /\ sPc = "start"
    /\ sPc' = "run"
    /\ refsA' = AddRefs(refsA, fileA)
    /\ UNCHANGED <<sIdx, sShuffler, sBits, sErr, pipe2, pipe2State>>
    /\ UNCHANGED <<aloneVars, sessionVars, reconVars, callerVars>>

\* The sender gives up: the handles still in the shuffler are disposed, the
\* chunk pipe is closed with the error.
SenderFails(shuffler, refs, err) ==
    /\ sErr' = err
    /\ sPc' = "returned"
    /\ LET r == EndDispose(shuffler, refs, 0)
       IN  sShuffler' = r.s /\ refsA' = r.refs
    /\ pipe2State' = IF pipe2State = "open" THEN "error" ELSE pipe2State

\* One shuffled position: a Put of the next chunk (or of nil inside End), a
\* wishlist bit, and the chunk record if the bit asks for it.
SenderStep ==
    /\ sPc = "run"
    /\ sIdx < NPositions
    /\ sBits # <<>> \/ pipe1 # <<>> \/ pipe1State # "open"
    /\ LET v == IF sIdx < NChunks THEN Handle(fileA[sIdx + 1]) ELSE Nil
           got == IF v = Nil THEN refsA ELSE [refsA EXCEPT ![v.file] = @ + 1]
           put == ShufflerPut(sShuffler, v)
           out == ApplyForward(placeholder, put.r)
           bits == IF sBits # <<>> THEN sBits ELSE BitsOfByte(Head(pipe1))
           released == IF out = placeholder THEN got ELSE StoreDispose(got, out)
       IN  IF sBits = <<>> /\ pipe1 = <<>>
           THEN /\ SenderFails(put.s, released, "wishlist too short")
                /\ UNCHANGED <<sIdx, sBits, pipe1, pipe2>>
           ELSE /\ sBits' = Tail(bits)
                /\ pipe1' = IF sBits # <<>> THEN pipe1 ELSE Tail(pipe1)
                /\ IF out # placeholder /\ Head(bits) /\ pipe2State # "open"
                   THEN /\ SenderFails(put.s, released, "write on closed pipe")
                        /\ UNCHANGED <<sIdx, pipe2>>
                   ELSE /\ sShuffler' = put.s
                        /\ refsA' = released
                        /\ sIdx' = sIdx + 1
                        /\ pipe2' = IF out # placeholder /\ Head(bits)
                                    THEN Append(pipe2, ChunkInfoOf(out.file))
                                    ELSE pipe2
                        /\ UNCHANGED <<sPc, sErr, pipe2State>>
    /\ UNCHANGED <<builderVars, storeBVars, wlHistory, reconVars, callerVars>>
    /\ UNCHANGED <<wlPc, wlIdx, wlShuffler, requested, wlMem, bitWriter, wlErr, pipe1State>>
    /\ UNCHANGED <<aloneVars>>

\* After End: the sender returns nil and the goroutine closes the chunk pipe.
SenderReturn ==
    /\ sPc = "run"
    /\ sIdx = NPositions
    /\ sErr' = "nil"
    /\ sPc' = "returned"
    /\ pipe2State' = IF pipe2State = "open" THEN "eof" ELSE pipe2State
    /\ UNCHANGED <<refsA, sIdx, sShuffler, sBits, pipe2>>
    /\ UNCHANGED <<aloneVars, sessionVars, reconVars, callerVars>>

\* The goroutine's deferred chunks.Dispose().
SenderExit ==
    /\ sPc = "returned"
    /\ sPc' = "exited"
    /\ refsA' = DropRefs(refsA, fileA)
    /\ UNCHANGED <<sIdx, sShuffler, sBits, sErr, pipe2, pipe2State>>
    /\ UNCHANGED <<aloneVars, sessionVars, reconVars, callerVars>>

(***************************************************************************)
(* receive.go: Builder.ReconstructFileFromRequestedChunks.  The state the  *)
(* task works on: its unshuffler, its Temporary and the receiver's store.  *)
(***************************************************************************)
RecState == [u |-> unshuffler, temp |-> temp, present |-> presentB, refs |-> refsB]

\* unshuffler.Put(v): the consumer appends the chunk leaving the shuffler to
\* the Temporary (appendChunk) and disposes its handle.
UnshufflerPutKeepsChunk(st, v) ==
    LET put == ShufflerPut(st.u, v)
        out == ApplyInverse(placeholder, put.r)
    IN  IF out = Nil THEN [st EXCEPT !.u = put.s]
        ELSE TempWrite([st EXCEPT !.u = put.s], out.file)

UnshufflerPut(st, v) ==
    LET put == ShufflerPut(st.u, v)
        out == ApplyInverse(placeholder, put.r)
    IN  IF out = Nil THEN [st EXCEPT !.u = put.s]
        ELSE [TempWrite([st EXCEPT !.u = put.s], out.file) EXCEPT !.refs[out.file] = @ - 1]

\* unshuffler.End(): Length()-1 times Put(nil).
RECURSIVE UnshufflerEnd(_, _)
UnshufflerEnd(st, i) ==
    IF i >= ShufflerLength(st.u) - 1 THEN st
    ELSE UnshufflerEnd(UnshufflerPut(st, Nil), i + 1)

\* unshuffler.Put(v) when appendChunk returns aerr for the chunk leaving the
\* shuffler, if one does: the consumer disposes the handle in either case and
\* returns the error, which Put returns.
UnshufflerPutErrKeepsChunk(st, v, aerr) ==
    LET put == ShufflerPut(st.u, v)
        out == ApplyInverse(placeholder, put.r)
    IN  IF out = Nil THEN [st |-> [st EXCEPT !.u = put.s], err |-> "nil"]
        ELSE IF aerr = "nil" THEN [st |-> UnshufflerPut(st, v), err |-> "nil"]
        ELSE [st |-> [st EXCEPT !.u = put.s], err |-> aerr]

UnshufflerPutErr(st, v, aerr) ==
    LET put == ShufflerPut(st.u, v)
        out == ApplyInverse(placeholder, put.r)
    IN  IF out = Nil THEN [st |-> [st EXCEPT !.u = put.s], err |-> "nil"]
        ELSE IF aerr = "nil" THEN [st |-> UnshufflerPut(st, v), err |-> "nil"]
        ELSE [st |-> [st EXCEPT !.u = put.s, !.refs[out.file] = @ - 1], err |-> aerr]

\* unshuffler.End() when appendChunk may return any of aerrs: the outcomes,
\* the call returning at the first error.
RECURSIVE UnshufflerEndOutcomes(_, _, _)
UnshufflerEndOutcomes(st, i, aerrs) ==
    IF i >= ShufflerLength(st.u) - 1 THEN {[st |-> st, err |-> "nil"]}
    ELSE UNION {LET r == UnshufflerPutErr(st, Nil, aerr)
                IN  IF r.err = "nil" THEN UnshufflerEndOutcomes(r.st, i + 1, aerrs) ELSE {r} :
                    aerr \in aerrs}

\* chunk, _ := b.storage.Get(&mem.ci.Key): the error is dropped, chunk is nil then.
GetChunk(st, key) ==
    LET g == StoreGet(st.present, st.refs, key)
    IN  [st |-> [st EXCEPT !.refs = g.refs],
         chunk |-> IF g.found THEN Handle(key) ELSE Nil]

\* The largest chunk length readChunk accepts (adler32.MAX_CHUNK): the size of
\* the largest chunk of the model.
MAX_CHUNK == NKeys

\* The key of the chunk with no bytes, which a record of length 0 carries.  No
\* file of the model has this chunk, and the store's entry for it is not kept.
emptyBodyKey == NKeys + 1

\* readChunk, the errors it can return for the records `recs` still to read and
\* the way `state` the stream ends after them.  At the end of the stream:
\* io.EOF if no byte is left or if the body is shorter than announced (CopyN);
\* io.EOF or io.ErrUnexpectedEOF, depending on the version of encoding/binary,
\* if the stream ends inside the length prefix.  No result while the stream is
\* open and empty: the read blocks.
ReadChunkErrorsNoUpperBound(recs, state) ==
    IF recs # <<>>
    THEN IF Head(recs).Size < 0 THEN {"Invalid chunk length"} ELSE {"nil"}
    ELSE {"EOF"}

ReadChunkErrors(recs, state) ==
    IF recs # <<>>
    THEN IF Head(recs).Size < 0 \/ Head(recs).Size > MAX_CHUNK
         THEN {"Invalid chunk length"}
         ELSE {"nil"}
    ELSE CASE state = "eof" -> {"EOF"}
           [] state = "eofInLength" -> {"EOF", "unexpected EOF"}
           [] state = "eofInBody" -> {"EOF"}
           [] state = "error" -> {"read error"}
           [] OTHER -> {}

\* readChunk: the chunk read is written to the store; the File returned holds
\* one reference to it.
ReadChunk(st, rec) ==
    IF rec.Key \in Keys
    THEN [st EXCEPT !.present = @ \cup {rec.Key}, !.refs[rec.Key] = @ + 1]
    ELSE st

\* defer chunkFile.Dispose() of the iteration, if readChunk returned a File
DisposeChunkFile(st, err, rec) ==
    IF err = "nil" /\ rec.Key \in Keys THEN [st EXCEPT !.refs[rec.Key] = @ - 1] ELSE st

\* The iteration after readChunk returned err (and the chunk of record rec if
\* err is nil): "done" for errDone, "nil" if the iteration goes on to
\* storage.Get, else the error it returns.
IterationResultAcceptsAnyChunk(err, mem, rec) ==
    IF err = "EOF" /\ mem = zeroMemo THEN "done"
    ELSE IF err = "EOF" THEN "unexpected EOF"
    ELSE IF err # "nil" THEN err
    ELSE IF mem = zeroMemo THEN "unsolicited chunk data"
    ELSE "nil"

IterationResultEofIsDone(err, mem, rec) ==
    IF err = "EOF" THEN "done"
    ELSE IF err # "nil" THEN err
    ELSE IF mem = zeroMemo THEN "unsolicited chunk data"
    ELSE IF rec.Key # mem.ci.Key THEN "Unexpected chunk"
    ELSE IF rec.Size # mem.ci.Size THEN "Unexpected chunk"
    ELSE "nil"

IterationResult(err, mem, rec) ==
    IF err = "EOF" /\ mem = zeroMemo THEN "done"
    ELSE IF err = "EOF" THEN "unexpected EOF"
    ELSE IF err # "nil" THEN err
    ELSE IF mem = zeroMemo THEN "unsolicited chunk data"
    ELSE IF rec.Key # mem.ci.Key THEN "Unexpected chunk"
    ELSE IF rec.Size # mem.ci.Size THEN "Unexpected chunk"
    ELSE "nil"

\* The iteration returned nil: the loop goes on.
RecContinue(st) ==
    /\ unshuffler' = st.u
    /\ temp' = st.temp
    /\ presentB' = st.present
    /\ refsB' = st.refs
    /\ recPc' = "select"
    /\ UNCHANGED <<recErr, fileB>>

\* return nil, err: the deferred End disposes the chunks in the unshuffler, the
\* deferred temp.Dispose() releases the chunks of the Temporary.
RecFails(st, err) ==
    /\ LET r == EndDispose(st.u, st.refs, 0)
       IN  /\ unshuffler' = r.s
           /\ refsB' = DropRefs(r.refs, st.temp.chunks)
    /\ temp' = NewTemporary
    /\ presentB' = st.present
    /\ recErr' = err
    /\ recPc' = "returned"
    /\ fileB' = <<>>

\* errDone: unshuffler.End(), temp.Close(), return temp.File(), nil.  Close
\* hands the references of the Temporary over to the File.
RecSucceeds(st) ==
    \E closed \in {TempClose(UnshufflerEnd(st, 0))} :
    \E r \in {EndDispose(closed.u, closed.refs, 0)} :
        /\ unshuffler' = r.s
        /\ refsB' = r.refs
        /\ temp' = NewTemporary
        /\ presentB' = closed.present
        /\ fileB' = closed.temp.chunks
        /\ recErr' = "nil"
        /\ recPc' = "returned"

\* The iteration after unshuffler.Put returned: its deferred Dispose of the
\* handle h (the memo's file or the chunk read, Nil if none), then the loop.
RecAfterPut(r, h) ==
    \E st \in {[r.st EXCEPT !.refs = StoreDispose(@, h)]} :
        IF r.err = "nil" THEN RecContinue(st) ELSE RecFails(st, r.err)

\* errDone, when appendChunk and temp.Close() may return any of errs.
RecEnds(st, errs) ==
    \E o \in UnshufflerEndOutcomes(st, 0, errs), cerr \in errs :
        IF o.err # "nil" THEN RecFails(o.st, o.err)
        ELSE IF cerr # "nil" THEN RecFails(o.st, cerr)
        ELSE RecSucceeds(st)

\* The cases of the iteration's select that can proceed: <-b.done once done is
\* closed, <-b.memos when a memo is queued or the queue is closed.
SelectCasesDoneAsMemo(d, q, closed) ==
    IF q # <<>> \/ closed \/ d THEN {"memo"} ELSE {}

SelectCases(d, q, closed) ==
    (IF d THEN {"done"} ELSE {}) \cup (IF q # <<>> \/ closed THEN {"memo"} ELSE {})

\* The select of an iteration, and the whole iteration if no chunk is read;
\* errs is what a write to the Temporary may return.
RecSelectWith(errs) ==
    /\ recPc = "select"
    /\ \/ /\ "done" \in SelectCases(done, memos, memosClosed)
          /\ RecFails(RecState, "disposed")
          /\ UNCHANGED <<memos, recMem>>
       \/ /\ "memo" \in SelectCases(done, memos, memosClosed)
          /\ LET mem == IF memos # <<>> THEN Head(memos) ELSE zeroMemo
             IN  /\ memos' = IF memos # <<>> THEN Tail(memos) ELSE memos
                 /\ IF mem.ci = emptyChunkInfo
                    THEN /\ \E aerr \in errs :
                                RecAfterPut(UnshufflerPutErr(RecState, placeholder, aerr), mem.file)
                         /\ UNCHANGED recMem
                    ELSE IF mem.requested \/ mem = zeroMemo
                    THEN /\ recMem' = mem
                         /\ recPc' = "read"
                         /\ UNCHANGED <<unshuffler, temp, presentB, refsB, recErr, fileB>>
                    ELSE /\ LET g == GetChunk(RecState, mem.ci.Key)
                            IN  \E aerr \in errs :
                                   RecAfterPut(UnshufflerPutErr(g.st, g.chunk, aerr), mem.file)
                         /\ UNCHANGED recMem
    /\ UNCHANGED <<fileA, syncinf, done, memosClosed, disposed, started>>
    /\ UNCHANGED <<wlVars, wlHistory, senderVars, callerVars, aloneVars>>

\* A Temporary whose writes do not fail (the store of the tests).
RecSelect == RecSelectWith({"nil"})

\* readChunk and the rest of the iteration; errs is what a write to the
\* Temporary may return.
RecReadWith(errs) ==
    /\ recPc = "read"
    /\ \E err \in ReadChunkErrors(pipe2, pipe2State) :
          LET rec == IF pipe2 # <<>> THEN Head(pipe2) ELSE Nil
              st0 == IF err = "nil" THEN ReadChunk(RecState, rec) ELSE RecState
              res == IterationResult(err, recMem, rec)
          IN  /\ pipe2' = IF pipe2 # <<>> THEN Tail(pipe2) ELSE pipe2
              /\ IF res = "done" THEN RecEnds(RecState, errs)
                 ELSE IF res = "nil"
                 THEN LET g == GetChunk(st0, recMem.ci.Key)
                      IN  \E aerr \in errs :
                             RecAfterPut(UnshufflerPutErr(g.st, g.chunk, aerr),
                                         IF rec.Key \in Keys THEN Handle(rec.Key) ELSE Nil)
                 ELSE RecFails(DisposeChunkFile(st0, err, rec), res)
    /\ recMem' = zeroMemo
    /\ UNCHANGED <<builderVars, wlVars, wlHistory, callerVars, aloneVars>>
    /\ UNCHANGED <<refsA, sPc, sIdx, sShuffler, sBits, sErr, pipe2State>>

RecRead == RecReadWith({"nil"})

(***************************************************************************)
(* The caller of the session (testWithParams, SyncFrom): it runs the       *)
(* reconstruct task itself; then its deferred calls dispose the file       *)
(* returned, the Builder and the source file.  The transport of the chunk  *)
(* data may be cancelled (SyncFrom: the request's context).                *)
(***************************************************************************)
CancelTransport ==
    /\ recPc # "returned"
    /\ pipe2State = "open"
    /\ pipe2State' = "error"
    /\ UNCHANGED <<refsA, sPc, sIdx, sShuffler, sBits, sErr, pipe2>>
    /\ UNCHANGED <<aloneVars, sessionVars, reconVars, callerVars>>

\* defer f.Dispose(), registered only if the reconstruct task succeeded
DisposeFileB ==
    /\ hPc = "recon"
    /\ recPc = "returned"
    /\ hPc' = "builder"
    /\ refsB' = IF recErr = "nil" THEN DropRefs(refsB, fileB) ELSE refsB
    /\ UNCHANGED <<builderVars, presentB, wlVars, wlHistory, senderVars, reconVars, dPc>>
    /\ UNCHANGED <<aloneVars>>

\* Builder.Dispose, the section under the mutex: panic if b.disposed is set
\* already, else set it and read b.started.
DisposeLockNoCheck(d, s) == [panic |-> FALSE, disposed |-> TRUE, started |-> s]

DisposeLock(d, s) == [panic |-> d, disposed |-> TRUE, started |-> s]

\* Builder.Dispose after close(b.done): `if started { for chunk := range b.memos`
DisposeNeverDrains(s) == "returned"

DisposeAlwaysDrains(s) == "drain"

DisposeAfterClose(s) == IF s THEN "drain" ELSE "returned"

\* Builder.Dispose up to close(b.done)
Dispose ==
    /\ hPc = "builder"
    /\ ~DisposeLock(disposed, started).panic
    /\ disposed' = DisposeLock(disposed, started).disposed
    /\ done' = TRUE
    /\ dPc' = DisposeAfterClose(DisposeLock(disposed, started).started)
    /\ hPc' = "disposing"
    /\ UNCHANGED <<fileA, syncinf, memos, memosClosed, started>>
    /\ UNCHANGED <<storeBVars, wlVars, wlHistory, senderVars, reconVars, aloneVars>>

\* Builder.Dispose: one iteration of `for chunk := range b.memos`
DisposeDrain ==
    /\ dPc = "drain"
    /\ memos # <<>>
    /\ memos' = Tail(memos)
    /\ refsB' = StoreDispose(refsB, Head(memos).file)
    /\ UNCHANGED <<fileA, syncinf, done, memosClosed, disposed, started>>
    /\ UNCHANGED <<presentB, wlVars, wlHistory, peerVars, aloneVars>>

\* `for chunk := range b.memos` ends when the channel is closed and empty.
RangeEndsWhenEmpty(q, closed) == q = <<>>

RangeEnds(q, closed) == q = <<>> /\ closed

\* Builder.Dispose: the range loop ends when the channel is closed and empty
DisposeReturn ==
    /\ dPc = "drain"
    /\ RangeEnds(memos, memosClosed)
    /\ dPc' = "returned"
    /\ UNCHANGED <<hPc, senderVars, reconVars, sessionVars, aloneVars>>

\* defer fileA.Dispose()
DisposeFileA ==
    /\ hPc = "disposing"
    /\ dPc = "returned"
    /\ hPc' = "done"
    /\ refsA' = DropRefs(refsA, fileA)
    /\ UNCHANGED <<sPc, sIdx, sShuffler, sBits, sErr, pipe2, pipe2State>>
    /\ UNCHANGED <<dPc, reconVars, sessionVars, aloneVars>>

(***************************************************************************)
(* Spec: one session as testWithParams runs it.                            *)
(***************************************************************************)
Init ==
    /\ \E file \in ShortFiles, perm \in PermsUpTo(MaxK), present \in SUBSET Keys :
           BuilderInit(file, perm, present) /\ PeerInit(file, perm)
    /\ RawIdle
    /\ StrIdle
    /\ StoreIdle
    /\ JsIdle /\ InvIdle /\ LgIdle /\ FcIdle

Next ==
    \/ WLStart
    \/ WLConsume
    \/ WLEnqueue
    \/ WLFlush
    \/ SenderStart
    \/ SenderStep
    \/ SenderReturn
    \/ SenderExit
    \/ RecSelect
    \/ RecRead
    \/ CancelTransport
    \/ DisposeFileB
    \/ Dispose
    \/ DisposeDrain
    \/ DisposeReturn
    \/ DisposeFileA

Spec == Init /\ [][Next]_vars

\* WriteWishList, the sender and ReconstructFileFromRequestedChunks returned nil.
SessionSucceeded == wlErr = "nil" /\ sErr = "nil" /\ recErr = "nil"

RECURSIVE SumSizes(_)
SumSizes(keys) ==
    IF keys = {} THEN 0
    ELSE LET key == CHOOSE key \in keys : TRUE
         IN  SizeOf(key) + SumSizes(keys \ {key})

Locked(refs) == SumSizes({key \in Keys : refs[key] > 0})

(***************************************************************************)
(* C4: after a session that completed successfully and after the caller    *)
(* has disposed the Builder, the source file and the reconstructed file,   *)
(* no bytes remain locked in the sender's or the receiver's store          *)
(* (Locked = 0); no handle is disposed twice (no reference count is ever   *)
(* negative); and when the sender is done the source file's reference      *)
(* count is what it was before the session.                                *)
(***************************************************************************)
C4_NothingLocked ==
    /\ \A key \in Keys : refsA[key] >= 0 /\ refsB[key] >= 0
    /\ (sErr = "nil" /\ sPc = "exited" /\ hPc # "done") => refsA = FileRefs(fileA)
    /\ (SessionSucceeded /\ sPc = "exited" /\ hPc = "done") =>
           /\ Locked(refsA) = 0
           /\ Locked(refsB) = 0
           /\ \A key \in Keys : refsA[key] = 0 /\ refsB[key] = 0

\* A successful session, everything disposed; during it the receiver took a
\* handle from its store for a memo and read a chunk from the sender.
C4_Witness ==
    /\ SessionSucceeded
    /\ sPc = "exited"
    /\ hPc = "done"
    /\ Len(fileA) = 3
    /\ Len(syncinf.Perm) = 3
    /\ \E i \in 1..Len(wishBits) : wishBits[i]
    /\ \E i \in 1..Len(lookups) : lookups[i].ci # emptyChunkInfo /\ lookups[i].present

(***************************************************************************)
(* SpecStore: a chunk store of bounded capacity alone, used by clients     *)
(* that write chunks (through a Temporary), get, duplicate and dispose     *)
(* handles and call FreeCache.  The size of a chunk is its key.  Modelled *)
(* from the specification: of the store, the sources at hand hold only     *)
(* the BoundedStorage interface and UsageInfo.                             *)
(***************************************************************************)
StoreSize(key) == key

RECURSIVE StoreBytes(_)
StoreBytes(keys) ==
    IF keys = {} THEN 0
    ELSE LET key == CHOOSE key \in keys : TRUE
         IN  StoreSize(key) + StoreBytes(keys \ {key})

\* GetUsageInfo: the fields Used and Locked of UsageInfo
StUsed == StoreBytes(stPresent)

StLocked == StoreBytes({key \in stPresent : stRefs[key] > 0})

\* The handles the clients hold, all chunks together.
RECURSIVE HeldIn(_)
HeldIn(keys) ==
    IF keys = {} THEN 0
    ELSE LET key == CHOOSE key \in keys : TRUE
         IN  stHeld[key] + HeldIn(keys \ {key})

\* The key becomes the most recently used one.
Touch(lru, key) == SelectSeq(lru, LAMBDA other : other # key) \o <<key>>

\* Whether `size` more bytes fit into the store.
FitsAlways(present, size) == TRUE

Fits(present, size) == StoreBytes(present) + size <= Capacity

\* The capacity policy: unreferenced chunks are evicted, least recently used
\* first, until `size` more bytes fit or no unreferenced chunk is left.
RECURSIVE EvictForIgnoresLocks(_, _, _)
EvictForIgnoresLocks(present, lru, size) ==
    IF Fits(present, size) \/ lru = <<>>
    THEN [present |-> present, lru |-> lru]
    ELSE EvictForIgnoresLocks(present \ {Head(lru)}, Tail(lru), size)

RECURSIVE EvictFor(_, _, _)
EvictFor(present, lru, size) ==
    LET free == SelectSeq(lru, LAMBDA key : stRefs[key] = 0)
    IN  IF Fits(present, size) \/ free = <<>>
        THEN [present |-> present, lru |-> lru]
        ELSE EvictFor(present \ {Head(free)},
                      SelectSeq(lru, LAMBDA key : key # Head(free)), size)

\* The chunks in the store after the last handle of `key` was disposed:
\* the chunk is kept.
AfterReleaseDeletes(present, refs, key) ==
    IF refs[key] = 0 THEN present \ {key} ELSE present

AfterRelease(present, refs, key) == present

\* A new store: no chunk, no handle.
StoreInit == StoreIdle

\* Temporary.Write / Close emits the chunk `key`: the chunk is in the store
\* already, or it is inserted, under the capacity policy.
StWrite(key) ==
    /\ HeldIn(StoreKeys) < MaxHandles
    /\ IF key \in stPresent
       THEN /\ stRefs' = StoreGet(stPresent, stRefs, key).refs
            /\ stHeld' = [stHeld EXCEPT ![key] = @ + 1]
            /\ stLru' = Touch(stLru, key)
            /\ stLast' = [op |-> "write", key |-> key, result |-> "ok", evicted |-> {}]
            /\ UNCHANGED stPresent
       ELSE LET e == EvictFor(stPresent, stLru, StoreSize(key))
            IN  IF Fits(e.present, StoreSize(key))
                THEN /\ stPresent' = e.present \cup {key}
                     /\ stLru' = e.lru \o <<key>>
                     /\ stRefs' = [stRefs EXCEPT ![key] = 1]
                     /\ stHeld' = [stHeld EXCEPT ![key] = @ + 1]
                     /\ stLast' = [op |-> "write", key |-> key, result |-> "ok",
                                   evicted |-> stPresent \ e.present]
                ELSE /\ stPresent' = e.present
                     /\ stLru' = e.lru
                     /\ stLast' = [op |-> "write", key |-> key, result |-> "NoSpace",
                                   evicted |-> stPresent \ e.present]
                     /\ UNCHANGED <<stRefs, stHeld>>
    /\ UNCHANGED notStVars

\* FileStorage.Get
StGet(key) ==
    /\ HeldIn(StoreKeys) < MaxHandles
    /\ LET g == StoreGet(stPresent, stRefs, key)
       IN  /\ stRefs' = g.refs
           /\ stHeld' = IF key \in stPresent THEN [stHeld EXCEPT ![key] = @ + 1] ELSE stHeld
           /\ stLru' = IF key \in stPresent THEN Touch(stLru, key) ELSE stLru
           /\ stLast' = [op |-> "get", key |-> key,
                         result |-> IF g.found THEN "ok" ELSE "NotFound", evicted |-> {}]
    /\ UNCHANGED <<stPresent, notStVars>>

\* File.Duplicate: one more handle to a chunk a client holds
StDuplicate(key) ==
    /\ HeldIn(StoreKeys) < MaxHandles
    /\ stHeld[key] > 0
    /\ stRefs' = [stRefs EXCEPT ![key] = @ + 1]
    /\ stHeld' = [stHeld EXCEPT ![key] = @ + 1]
    /\ stLast' = [op |-> "duplicate", key |-> key, result |-> "ok", evicted |-> {}]
    /\ UNCHANGED <<stPresent, stLru, notStVars>>

\* File.Dispose of a handle a client holds
StDispose(key) ==
    /\ stHeld[key] > 0
    /\ stRefs' = StoreDispose(stRefs, Handle(key))
    /\ stHeld' = [stHeld EXCEPT ![key] = @ - 1]
    /\ stPresent' = AfterRelease(stPresent, stRefs', key)
    /\ stLru' = SelectSeq(stLru, LAMBDA other : other \in stPresent')
    /\ stLast' = [op |-> "dispose", key |-> key, result |-> "ok", evicted |-> {}]
    /\ UNCHANGED notStVars

\* BoundedStorage.FreeCache: clears any data that is not locked
StFreeCache ==
    /\ stPresent' = {key \in stPresent : stRefs[key] > 0}
    /\ stLru' = SelectSeq(stLru, LAMBDA key : stRefs[key] > 0)
    /\ stLast' = [op |-> "FreeCache", key |-> 0, result |-> "ok",
                  evicted |-> {key \in stPresent : stRefs[key] = 0}]
    /\ UNCHANGED <<stRefs, stHeld, notStVars>>

InitStore == StoreInit /\ RawIdle /\ StrIdle /\ SessionIdle /\ JsIdle /\ InvIdle /\ LgIdle /\ FcIdle

NextStore ==
    \/ \E key \in StoreKeys : StWrite(key)
    \/ \E key \in StoreKeys : StGet(key)
    \/ \E key \in StoreKeys : StDuplicate(key)
    \/ \E key \in StoreKeys : StDispose(key)
    \/ StFreeCache

SpecStore == InitStore /\ [][NextStore]_vars

(***************************************************************************)
(* C5: in every reachable state of the chunk store, a chunk whose          *)
(* reference count is greater than 0 is never evicted and never loses      *)
(* bytes: it is in the store, and every step that removes a chunk removes  *)
(* a chunk with reference count 0.                                         *)
(***************************************************************************)
C5_ReferencedNeverEvicted ==
    /\ [](\A key \in StoreKeys : stRefs[key] > 0 => key \in stPresent)
    /\ [][\A key \in StoreKeys :
             (key \in stPresent /\ key \notin stPresent') => stRefs[key] = 0]_vars

\* An insertion evicted a chunk while another chunk, referenced, stayed.
C5_Witness ==
    /\ stLast.op = "write"
    /\ stLast.result = "ok"
    /\ stLast.evicted # {}
    /\ \E key \in stPresent : key # stLast.key /\ stRefs[key] > 0

(***************************************************************************)
(* C6: after every completed store operation Used <= Capacity and          *)
(* Locked <= Used; an insertion that would exceed the capacity first       *)
(* evicts unreferenced chunks and, if the bytes left are locked and the    *)
(* chunk still does not fit, fails with NoSpace and inserts nothing.       *)
(***************************************************************************)
C6_WithinCapacity ==
    /\ StUsed <= Capacity
    /\ StLocked <= StUsed
    /\ stLast.result = "NoSpace" =>
           /\ stLast.key \notin stPresent
           /\ \A key \in stPresent : stRefs[key] > 0
           /\ StLocked + StoreSize(stLast.key) > Capacity
    /\ (stLast.op = "write" /\ stLast.result = "ok") => stLast.key \in stPresent

\* An insertion evicted what it could and failed with NoSpace.
C6_Witness ==
    /\ stLast.op = "write"
    /\ stLast.result = "NoSpace"
    /\ stLast.evicted # {}
    /\ StLocked > 0

(***************************************************************************)
(* C7: in every reachable state of the chunk store, for every chunk, the   *)
(* stored reference count equals the number of live handles to the chunk,  *)
(* and is never negative.                                                  *)
(***************************************************************************)
C7_RefcountIsLiveHandles ==
    \A key \in StoreKeys : stRefs[key] = stHeld[key] /\ stRefs[key] >= 0

\* A chunk with two live handles, and a chunk whose handle was disposed.
C7_Witness ==
    /\ stLast.op = "dispose"
    /\ \E key \in StoreKeys : stRefs[key] = 2
    /\ \E key \in stPresent : stRefs[key] = 0

(***************************************************************************)
(* C8: a chunk whose last handle has been released stays in the store and  *)
(* can still be obtained with Get until it is evicted by an insertion      *)
(* that needs the space or by FreeCache: a dispose removes no chunk, only  *)
(* a write or FreeCache does, and Get of a chunk in the store succeeds.    *)
(***************************************************************************)
C8_ReleasedStaysCached ==
    [][/\ stLast'.op = "dispose" => stPresent' = stPresent
       /\ ~(stPresent \subseteq stPresent') => stLast'.op \in {"write", "FreeCache"}
       /\ (stLast'.op = "get" /\ stLast'.key \in stPresent) => stLast'.result = "ok"]_vars

\* Get returned a chunk that no handle referred to.
C8_Witness ==
    /\ stLast.op = "get"
    /\ stLast.result = "ok"
    /\ stRefs[stLast.key] = 1

(***************************************************************************)
(* SpecDispose: a Builder whose owner may call Dispose at any moment,      *)
(* before, while or after WriteWishList and                                *)
(* ReconstructFileFromRequestedChunks run, and may call it again.  The     *)
(* peer sends no chunk: the chunk stream is at its end.                    *)
(***************************************************************************)
\* The files of the sessions of SpecDispose.
DisposeFiles == {file \in ShortFiles : Len(file) <= MaxDisposeChunks}

\* The records of complete chunks.
ChunkRecords == {ChunkInfoOf(key) : key \in Keys}

\* A further Dispose call on the Builder: b.disposed is set, so the call
\* panics inside the section under the mutex.
DisposeAgain ==
    /\ hPc = "disposing"
    /\ LET l == DisposeLock(disposed, started)
       IN  IF l.panic
           THEN /\ hPc' = "panicked"
                /\ UNCHANGED <<done, dPc>>
           ELSE /\ hPc' = "disposed twice"
                /\ done' = TRUE
                /\ dPc' = DisposeAfterClose(l.started)
    /\ UNCHANGED <<fileA, syncinf, memos, memosClosed, disposed, started>>
    /\ UNCHANGED <<storeBVars, wlVars, wlHistory, senderVars, reconVars, aloneVars>>

InitDispose ==
    /\ \E file \in DisposeFiles, perm \in PermsUpTo(MaxDisposeK), present \in SUBSET Keys :
           /\ BuilderInit(file, perm, present)
           /\ SenderInit(<<>>, <<0>>)
           /\ StreamInit(<<>>, "eof")
           /\ ReconInit(perm)
    /\ CallerInit("builder")
    /\ RawIdle
    /\ StrIdle
    /\ StoreIdle
    /\ JsIdle /\ InvIdle /\ LgIdle /\ FcIdle

NextDispose ==
    \/ WLStart
    \/ WLConsume
    \/ WLEnqueue
    \/ WLFlush
    \/ RecSelect
    \/ RecRead
    \/ Dispose
    \/ DisposeAgain
    \/ DisposeDrain
    \/ DisposeReturn

SpecDispose == InitDispose /\ [][NextDispose]_vars

(***************************************************************************)
(* C11: Dispose called on a Builder on which WriteWishList was never       *)
(* started returns without blocking: it does not wait on the memo queue,   *)
(* which nobody will ever fill or close.                                   *)
(* Whenever the Builder is disposed and not started, the Dispose call has  *)
(* returned, and the queue is empty and open; the Dispose step of an       *)
(* unstarted Builder ends the call.                                        *)
(***************************************************************************)
C11_DisposeUnstartedReturns ==
    /\ []((disposed /\ ~started) => (dPc = "returned" /\ memos = <<>> /\ ~memosClosed))
    /\ [][(~disposed /\ ~started /\ disposed') => dPc' = "returned"]_vars

\* Dispose has returned on an unstarted Builder, and the WriteWishList call
\* made afterwards has returned too.
C11_Witness ==
    /\ disposed /\ ~started
    /\ dPc = "returned"
    /\ wlPc = "returned"

(***************************************************************************)
(* C12: WriteWishList called on a Builder that has already been disposed   *)
(* returns ErrDisposed and has no effect: it enqueues no memo, takes no    *)
(* handle from the store, writes no wishlist bit and does not close the    *)
(* memo queue.                                                             *)
(***************************************************************************)
C12_WishListOnDisposed ==
    /\ []((wlPc = "returned" /\ ~started) =>
              /\ wlErr = "disposed"
              /\ nEnqueued = 0 /\ memos = <<>> /\ ~memosClosed
              /\ lookups = <<>> /\ refsB = [key \in Keys |-> 0]
              /\ wishBits = <<>> /\ wishOut = <<>> /\ pipe1 = <<>>)
    /\ [][(wlPc = "start" /\ disposed /\ wlPc' # wlPc) =>
              /\ wlPc' = "returned" /\ wlErr' = "disposed"
              /\ UNCHANGED <<memos, memosClosed, started, storeBVars, wlHistory, pipe1>>]_vars

\* WriteWishList was called after Dispose and has returned.
C12_Witness ==
    /\ wlPc = "returned"
    /\ disposed /\ ~started
    /\ wlErr = "disposed"

(***************************************************************************)
(* C13: Dispose signals done exactly once per Builder: a second Dispose    *)
(* call on the same Builder, in any state and from any task, is rejected   *)
(* as a programming error (panic) and never closes the done signal a       *)
(* second time or drains the queue a second time.                          *)
(* A Dispose call made on a disposed Builder panics and changes nothing of *)
(* the Builder; done is closed by the step that sets disposed, and by no   *)
(* other.                                                                  *)
(***************************************************************************)
C13_SecondDisposePanics ==
    /\ [](hPc \in {"builder", "disposing", "panicked"})
    /\ [][(disposed /\ hPc # hPc') =>
              /\ hPc' = "panicked"
              /\ UNCHANGED <<sessionVars, dPc>>]_vars
    /\ [][done' # done => (~disposed /\ disposed' /\ ~done /\ done')]_vars

\* The second call came while the first one was draining the queue.
C13_Witness ==
    /\ hPc = "panicked"
    /\ dPc = "drain"
    /\ memos # <<>>

(***************************************************************************)
(* C14: if Dispose is called while WriteWishList is blocked enqueuing a    *)
(* memo into a full memo queue, WriteWishList releases the handle held by  *)
(* that memo and returns ErrDisposed.                                      *)
(* consumeFunc returns ErrDisposed, but WriteWishList returns              *)
(* fmt.Errorf("error from shuffler.Put: %v", err): another error.          *)
(***************************************************************************)
C14_BlockedEnqueueReturnsErrDisposed ==
    [][(wlPc = "enqueue" /\ Len(memos) = WindowSize /\ done /\ wlPc' = "returned") =>
           /\ refsB' = StoreDispose(refsB, wlMem.file)
           /\ wlErr' = "disposed"]_vars

\* What holds of that step: the handle is released, the queue is closed and
\* not touched, and the error returned wraps the text of ErrDisposed.
C14_BlockedEnqueueReleasesHandle ==
    [][(wlPc = "enqueue" /\ Len(memos) = WindowSize /\ done /\ wlPc' = "returned") =>
           /\ refsB' = StoreDispose(refsB, wlMem.file)
           /\ wlErr' \in {"error from shuffler.Put: disposed", "error from shuffler.End: disposed"}
           /\ memosClosed' /\ memos' = memos]_vars

\* WriteWishList was blocked on a full queue with a memo that holds a handle,
\* and Dispose has closed done.
C14_Witness ==
    /\ wlPc = "enqueue"
    /\ Len(memos) = WindowSize
    /\ wlMem.file # Nil
    /\ done

(***************************************************************************)
(* C15: if Dispose is called while ReconstructFileFromRequestedChunks is   *)
(* waiting for a memo from the queue, it returns ErrDisposed and no file;  *)
(* it does not go on to process memos or to complete the file after the    *)
(* disposal.                                                               *)
(* The task waits in its select when the queue is empty and open.  If done *)
(* is closed then, the select takes the done case: the task returns        *)
(* ErrDisposed and no file, takes no memo, and does nothing afterwards.    *)
(***************************************************************************)
C15_DisposedWhileWaiting ==
    /\ [][(recPc = "select" /\ memos = <<>> /\ ~memosClosed /\ done /\ recPc' # recPc) =>
              /\ recPc' = "returned" /\ recErr' = "disposed" /\ fileB' = <<>>
              /\ UNCHANGED <<memos, presentB, pipe2>>]_vars
    /\ [](recErr = "disposed" => (recPc = "returned" /\ fileB = <<>>))
    /\ [][recPc = "returned" => UNCHANGED reconVars]_vars

\* The task has returned ErrDisposed while WriteWishList was still running
\* and the queue was empty.
C15_Witness ==
    /\ recErr = "disposed"
    /\ started /\ wlPc # "returned"
    /\ memos = <<>> /\ ~memosClosed

(***************************************************************************)
(* SpecChunkStream: WriteWishList and ReconstructFileFromRequestedChunks   *)
(* of a Builder that reads a chunk stream it has no control over: any      *)
(* records, with valid and invalid length prefixes, ending at a record     *)
(* boundary, inside a length prefix, inside a body or with a read error.   *)
(* The stream is a synchronous pipe, as in testWithParams: a write, or    *)
(* the closing of the pipe, takes effect when the reconstruct task reads.  *)
(* The SyncInfo comes from the peer as well: the sizes it states need not  *)
(* be the sizes of the chunks.  Writes to the Temporary may fail.           *)
(***************************************************************************)
\* The records a stream may hold: the chunks of the model, the chunk of
\* length 0, and length prefixes below 0 and above MAX_CHUNK.
StreamRecords ==
    ChunkRecords
    \cup {[Key |-> emptyBodyKey, Size |-> 0]}
    \cup {[Key |-> emptyKey, Size |-> -1], [Key |-> emptyKey, Size |-> MAX_CHUNK + 1]}

\* The ways a stream ends.
StreamEnds == {"eof", "eofInLength", "eofInBody", "error"}

\* The chunk lists a SyncInfo may state for a file: its keys, with any sizes.
RECURSIVE ManifestsOf(_)
ManifestsOf(file) ==
    IF file = <<>> THEN {<<>>}
    ELSE {<<[Key |-> Head(file), Size |-> size]>> \o rest :
              size \in 1..MAX_CHUNK, rest \in ManifestsOf(Tail(file))}

\* What a write to the Temporary (appendChunk, temp.Close) may return.
AppendErrors == {"nil", "write error"}

\* The peer writes a record into the pipe.
PeerWrites(rec) ==
    /\ recPc = "read"
    /\ pipe2 = <<>>
    /\ pipe2State = "open"
    /\ pipe2' = <<rec>>
    /\ UNCHANGED <<refsA, sPc, sIdx, sShuffler, sBits, sErr, pipe2State>>
    /\ UNCHANGED <<aloneVars, sessionVars, reconVars, callerVars>>

\* The peer closes the pipe, possibly after a part of a record, or the
\* transport fails.
PeerCloses(end) ==
    /\ recPc = "read"
    /\ pipe2 = <<>>
    /\ pipe2State = "open"
    /\ pipe2State' = end
    /\ UNCHANGED <<refsA, sPc, sIdx, sShuffler, sBits, sErr, pipe2>>
    /\ UNCHANGED <<aloneVars, sessionVars, reconVars, callerVars>>

InitChunkStream ==
    /\ \E file \in DisposeFiles, perm \in PermsUpTo(MaxDisposeK), present \in SUBSET Keys :
           /\ \E chunks \in ManifestsOf(file) : BuilderInitWith(file, chunks, perm, present)
           /\ SenderInit(<<>>, <<0>>)
           /\ StreamInit(<<>>, "open")
           /\ ReconInit(perm)
    /\ CallerInit("recon")
    /\ RawIdle
    /\ StrIdle
    /\ StoreIdle
    /\ JsIdle /\ InvIdle /\ LgIdle /\ FcIdle

NextChunkStream ==
    \/ WLStart
    \/ WLConsume
    \/ WLEnqueue
    \/ WLFlush
    \/ RecSelectWith(AppendErrors)
    \/ RecReadWith(AppendErrors)
    \/ \E rec \in StreamRecords : PeerWrites(rec)
    \/ \E end \in StreamEnds : PeerCloses(end)

SpecChunkStream == InitChunkStream /\ [][NextChunkStream]_vars

\* The step of the reconstruct task that reads a record for its memo.
ReadsRecord == recPc = "read" /\ pipe2 # <<>> /\ recPc' # recPc

\* The step of the reconstruct task that meets the end of the stream.
ReadsEnd == recPc = "read" /\ pipe2 = <<>> /\ recPc' # recPc

\* The record at the head of the stream has a length readChunk accepts.
HeadAccepted == Head(pipe2).Size >= 0 /\ Head(pipe2).Size <= MAX_CHUNK

(***************************************************************************)
(* C16: for every memo with requested = true, the record read from the     *)
(* chunk stream must have the size and the key recorded in the memo; if    *)
(* either differs, ReconstructFileFromRequestedChunks returns              *)
(* ErrUnexpectedChunk and no file, and the bytes of the mismatching record *)
(* are never appended to the output.                                       *)
(***************************************************************************)
C16_MismatchIsUnexpectedChunk ==
    /\ [][(ReadsRecord /\ recMem.requested /\ HeadAccepted
             /\ (Head(pipe2).Key # recMem.ci.Key \/ Head(pipe2).Size # recMem.ci.Size)) =>
              /\ recPc' = "returned" /\ recErr' = "Unexpected chunk"
              /\ fileB' = <<>> /\ temp' = NewTemporary]_vars
    /\ [][(ReadsRecord /\ recMem.requested /\ recPc' = "select") =>
              Head(pipe2) = recMem.ci]_vars
    /\ [](recErr # "nil" => fileB = <<>>)

\* The task has returned ErrUnexpectedChunk and no file although the SyncInfo
\* states the true sizes: the record read had another key than the memo.
C16_Witness ==
    /\ recErr = "Unexpected chunk"
    /\ recPc = "returned" /\ fileB = <<>>
    /\ syncinf.Chunks = SetChunksFromFile(fileA)
    /\ temp = NewTemporary

\* The probe: the read made for the zero memo, which the task receives once
\* the memo queue is closed and drained.
Probes == recPc = "read" /\ recMem = zeroMemo /\ recPc' # recPc

(***************************************************************************)
(* C17: after the memo queue has been closed and drained,                  *)
(* ReconstructFileFromRequestedChunks returns a file only if the chunk     *)
(* stream is at EOF: if any unread byte remains on the stream (a complete  *)
(* extra record, or a partial one such as a length prefix followed by      *)
(* fewer bytes than announced), it fails with the unsolicited-chunk-data   *)
(* error.                                                                  *)
(* That is not so: io.CopyN returns io.EOF for a body that is shorter than *)
(* announced, and the probe takes io.EOF for the end of the stream.        *)
(***************************************************************************)
C17_FileOnlyAtEof ==
    /\ [][(Probes /\ recErr' = "nil") => (pipe2 = <<>> /\ pipe2State = "eof")]_vars
    /\ [][(Probes /\ (\/ pipe2 # <<>> /\ Head(pipe2).Size \in 1..MAX_CHUNK
                      \/ pipe2 = <<>> /\ pipe2State \in {"eofInLength", "eofInBody"})) =>
              (recErr' = "unsolicited chunk data" /\ fileB' = <<>>)]_vars

\* What holds of the probe: a complete extra record is unsolicited chunk data.
C17_CompleteRecordIsUnsolicited ==
    [][(Probes /\ pipe2 # <<>> /\ HeadAccepted) =>
           (recPc' = "returned" /\ recErr' = "unsolicited chunk data" /\ fileB' = <<>>)]_vars

\* A file was returned although the stream ended inside the body of a record.
C17_Witness ==
    /\ recPc = "returned" /\ recErr = "nil"
    /\ pipe2State = "eofInBody"
    /\ fileB = fileA /\ fileB # <<>>

(***************************************************************************)
(* C18: if the chunk stream ends (at a record boundary or in the middle of *)
(* a record) while a memo with requested = true is waiting for its body,   *)
(* ReconstructFileFromRequestedChunks fails with an unexpected-EOF error   *)
(* and returns no file; an EOF counts as successful completion only at the *)
(* probe made after the memo queue has been closed and drained.            *)
(***************************************************************************)
C18_EofForRequestedMemo ==
    /\ [][(ReadsEnd /\ recMem.requested
             /\ pipe2State \in {"eof", "eofInLength", "eofInBody"}) =>
              /\ recPc' = "returned" /\ recErr' = "unexpected EOF"
              /\ fileB' = <<>> /\ temp' = NewTemporary]_vars
    /\ [][(recErr # "nil" /\ recErr' = "nil") =>
              (Probes /\ pipe2 = <<>> /\ memos = <<>> /\ memosClosed)]_vars

\* The stream ended inside the body of the record of the second requested
\* chunk; the first one had been read.
C18_Witness ==
    /\ recErr = "unexpected EOF"
    /\ pipe2State = "eofInBody"
    /\ fileB = <<>>
    /\ \E i \in 1..Len(lookups) : lookups[i].ci.Key \in presentB /\ ~lookups[i].present

ByteVals == {0, 171}
JsonSizes == {0, 1337}

\* cafs.SKey: an array of SKeyLen bytes; SKey{} is all zero.
SKeys == [1..SKeyLen -> ByteVals]
zeroKey == [i \in 1..SKeyLen |-> 0]

\* encoding/hex: hex.Encode, two lower-case digits per byte.
HexDigits == <<"0", "1", "2", "3", "4", "5", "6", "7",
               "8", "9", "a", "b", "c", "d", "e", "f">>

HexEncode(bytes) ==
    [i \in 1..(2 * Len(bytes)) |->
        IF i % 2 = 1 THEN HexDigits[(bytes[(i + 1) \div 2] \div 16) + 1]
        ELSE HexDigits[(bytes[i \div 2] % 16) + 1]]

\* SKey.MarshalJSON: the hex digits of the key between quotes.
SKeyMarshalJSON(k) == HexEncode(k)

\* encoding/base64, StdEncoding: the alphabet, the value of a character and
\* Decode, which turns each group of four characters into three bytes and
\* fails on text that is not a whole number of groups.
Base64Alphabet ==
    <<"A", "B", "C", "D", "E", "F", "G", "H", "I", "J", "K", "L", "M",
      "N", "O", "P", "Q", "R", "S", "T", "U", "V", "W", "X", "Y", "Z",
      "a", "b", "c", "d", "e", "f", "g", "h", "i", "j", "k", "l", "m",
      "n", "o", "p", "q", "r", "s", "t", "u", "v", "w", "x", "y", "z",
      "0", "1", "2", "3", "4", "5", "6", "7", "8", "9", "+", "/">>

Base64Value(c) == (CHOOSE i \in 1..Len(Base64Alphabet) : Base64Alphabet[i] = c) - 1

RECURSIVE Base64DecodeFrom(_, _)
Base64DecodeFrom(text, out) ==
    IF text = <<>> THEN [bytes |-> out, err |-> "nil"]
    ELSE IF Len(text) < 4 THEN [bytes |-> out, err |-> "illegal base64 data"]
    ELSE LET n == Base64Value(text[1]) * 262144 + Base64Value(text[2]) * 4096
                  + Base64Value(text[3]) * 64 + Base64Value(text[4])
         IN  Base64DecodeFrom(SubSeq(text, 5, Len(text)),
                              out \o <<n \div 65536, (n \div 256) % 256, n % 256>>)

Base64Decode(text) == Base64DecodeFrom(text, <<>>)

\* json.Unmarshal(b, &t) for a []byte t and a JSON string b: the string is
\* decoded as base64 into a new slice, which t is set to.
UnmarshalBytes(t, text) ==
    LET d == Base64Decode(text)
    IN  [t |-> IF d.err = "nil" THEN d.bytes ELSE t, err |-> d.err]

\* SKey.UnmarshalJSON: t := []byte(k[:]); return json.Unmarshal(b, &t).  The
\* slice t shares the array of k until Unmarshal sets t to the new slice: the
\* array of k is not written.
SKeyUnmarshalJSON(k, text) ==
    LET u == UnmarshalBytes(k, text)
    IN  [key |-> k, err |-> u.err]

\* encoding/json for an int: its decimal digits, and back.
RECURSIVE DecimalDigits(_)
DecimalDigits(n) ==
    IF n < 10 THEN <<HexDigits[n + 1]>>
    ELSE Append(DecimalDigits(n \div 10), HexDigits[(n % 10) + 1])

DigitValue(c) == (CHOOSE i \in 1..10 : HexDigits[i] = c) - 1

RECURSIVE ParseDecimalFrom(_, _)
ParseDecimalFrom(text, n) ==
    IF text = <<>> THEN n
    ELSE ParseDecimalFrom(Tail(text), 10 * n + DigitValue(Head(text)))

ParseDecimal(text) == ParseDecimalFrom(text, 0)

\* json.Marshal(s): the object with the members Chunks (an array of objects
\* with Key and Size) and Perm (an array of numbers).
MarshalSyncInfo(info) ==
    [Chunks |-> [i \in 1..Len(info.Chunks) |->
                    [Key |-> SKeyMarshalJSON(info.Chunks[i].Key),
                     Size |-> DecimalDigits(info.Chunks[i].Size)]],
     Perm |-> [i \in 1..Len(info.Perm) |-> DecimalDigits(info.Perm[i])]]

\* json.Unmarshal(b, &s2) for a fresh s2: every element of Chunks starts as the
\* zero chunkInfo, whose Key is decoded by SKey.UnmarshalJSON.
UnmarshalSyncInfo(text) ==
    [Chunks |-> [i \in 1..Len(text.Chunks) |->
                    [Key |-> SKeyUnmarshalJSON(zeroKey, text.Chunks[i].Key).key,
                     Size |-> ParseDecimal(text.Chunks[i].Size)]],
     Perm |-> [i \in 1..Len(text.Perm) |-> ParseDecimal(text.Perm[i])]]

\* The first error of the SKey.UnmarshalJSON calls, "nil" if there is none.
UnmarshalError(text) ==
    IF \E i \in 1..Len(text.Chunks) : SKeyUnmarshalJSON(zeroKey, text.Chunks[i].Key).err # "nil"
    THEN "illegal base64 data"
    ELSE "nil"

\* The chunk infos of the SyncInfos that are encoded.
JsonChunkInfos == [Key : SKeys, Size : JsonSizes]

JsInit ==
    /\ \E chunks \in SeqsUpTo(JsonChunkInfos, MaxJsonChunks), perm \in PermsUpTo(MaxJsonK) :
           jsIn = [Chunks |-> chunks, Perm |-> perm]
    /\ jsText = <<>>
    /\ jsOut = [Chunks |-> <<>>, Perm |-> <<>>]
    /\ jsPc = "marshal"

\* b, err := json.Marshal(s)
JsMarshal ==
    /\ jsPc = "marshal"
    /\ jsText' = MarshalSyncInfo(jsIn)
    /\ jsPc' = "unmarshal"
    /\ UNCHANGED <<jsIn, jsOut>>
    /\ UNCHANGED notJsVars

\* s2 := SyncInfo{}; err = json.Unmarshal(b, &s2)
JsUnmarshal ==
    /\ jsPc = "unmarshal"
    /\ jsOut' = UnmarshalSyncInfo(jsText)
    /\ jsPc' = IF UnmarshalError(jsText) = "nil" THEN "done" ELSE "failed"
    /\ UNCHANGED <<jsIn, jsText>>
    /\ UNCHANGED notJsVars

InitJson == FcIdle /\ InvIdle /\ LgIdle /\ JsInit /\ RawIdle /\ StrIdle /\ StoreIdle /\ SessionIdle

NextJson ==
    \/ JsMarshal
    \/ JsUnmarshal

SpecJson == InitJson /\ [][NextJson]_vars

\* The SyncInfo has been encoded and decoded.
JsDecoded == jsPc \in {"done", "failed"}

(***************************************************************************)
(* C20: for every SyncInfo s (any chunk list, including repeated keys, and *)
(* any permutation), decoding the JSON encoding of s into a fresh SyncInfo *)
(* yields the same chunk keys and sizes in the same order and the same     *)
(* permutation; in particular a key encoded as a hex string decodes to the *)
(* same 32-byte key.                                                       *)
(* That is not so: SKey.UnmarshalJSON never writes the key.                *)
(***************************************************************************)
C20_JsonRoundTrip ==
    JsDecoded => (jsPc = "done" /\ jsOut = jsIn)

\* What holds: the sizes and the permutation come back, and every key of the
\* decoded SyncInfo is the zero key.
C20_SizesAndPermRoundTrip ==
    JsDecoded =>
        /\ jsOut.Perm = jsIn.Perm
        /\ Len(jsOut.Chunks) = Len(jsIn.Chunks)
        /\ \A i \in 1..Len(jsIn.Chunks) :
               /\ jsOut.Chunks[i].Size = jsIn.Chunks[i].Size
               /\ jsOut.Chunks[i].Key = zeroKey

\* A SyncInfo with the same key twice, as in TestSyncInfoJSON, was decoded
\* without error, and the keys decoded are not the keys encoded.
C20_Witness ==
    /\ jsPc = "done"
    /\ Len(jsIn.Chunks) = MaxJsonChunks
    /\ jsIn.Chunks[1] = jsIn.Chunks[Len(jsIn.Chunks)]
    /\ jsIn.Chunks[1].Key # zeroKey
    /\ jsOut.Chunks[1].Key = zeroKey

(***************************************************************************)
(* remotesync.go: WriteRequestedChunks(file, r, w, cb) on its own, for any *)
(* file, any wishlist (too short, exact, too long, ending with EOF or with *)
(* a read error), a writer that may fail, with and without a callback.     *)
(* forEachChunk reads the wishlist one byte per eight chunks, most         *)
(* significant bit first, and reads once more after the last chunk.        *)
(***************************************************************************)
\* The bytes a wishlist is made of.
WishBytes == {0, 63, 64, 128, 255}

\* The files sent: short ones, and two that need a second wishlist byte.
SendFiles == {file \in ShortFiles : Len(file) <= MaxSendChunks} \cup LongFiles

\* cafs.File.Size of a file with the given chunks.
RECURSIVE FileSize(_)
FileSize(file) == IF file = <<>> THEN 0 ELSE SizeOf(Head(file)) + FileSize(Tail(file))

\* r.ReadByte()
ReadByte(wish, end) ==
    IF wish # <<>> THEN [b |-> Head(wish), err |-> "nil"]
    ELSE [b |-> 0, err |-> IF end = "eof" THEN "EOF" ELSE "read error"]

\* forEachChunk, the read inside the loop: any error ends the iteration.
WishlistNeverTooShort(rd) == FALSE

WishlistTooShort(rd) == rd.err # "nil"

\* forEachChunk, the read after the loop: anything but io.EOF is an error.
WishlistNeverTooLong(rd) == FALSE

WishlistTooLong(rd) == rd.err # "EOF"

\* 0 != (b & 0x80)
Requested(b) == (b \div 128) % 2 = 1

\* The callback of WriteRequestedChunks, chunk not requested.
AfterSkipKeepsTotal(total, size) == total

AfterSkip(total, size) == total - size

\* What a write of a chunk record to w may return.
WriteErrors == {"nil", "write error"}

\* WriteRequestedChunks up to the call of forEachChunk.
WriteRequestedChunks ==
    /\ fcPc = "start"
    /\ bytesToTransfer' = FileSize(fcFile)
    /\ bytesTransferred' = 0
    /\ fcReports' = IF fcCb THEN <<<<FileSize(fcFile), 0>>>> ELSE <<>>
    /\ fcByte' = 0
    /\ fcBit' = 8
    /\ fcIter' = 0
    /\ fcPc' = "loop"
    /\ UNCHANGED <<fcFile, fcCb, fcWishIn, fcWish, fcWishEnd, fcOut, fcErr>>
    /\ UNCHANGED notFcVars

\* One iteration of forEachChunk's loop, with the callback f.
forEachChunk ==
    /\ fcPc = "loop"
    /\ fcIter < Len(fcFile)
    /\ LET rd == IF fcBit = 8 THEN ReadByte(fcWish, fcWishEnd)
                 ELSE [b |-> fcByte, err |-> "nil"]
           bit == IF fcBit = 8 THEN 0 ELSE fcBit
           key == fcFile[fcIter + 1]
           req == Requested(rd.b)
       IN  /\ fcWish' = IF fcBit = 8 /\ fcWish # <<>> THEN Tail(fcWish) ELSE fcWish
           /\ IF fcBit = 8 /\ WishlistTooShort(rd)
              THEN /\ fcErr' = "Wishlist too short"
                   /\ fcPc' = "returned"
                   /\ UNCHANGED <<fcByte, fcBit, fcIter, bytesToTransfer, bytesTransferred,
                                  fcOut, fcReports>>
              ELSE \E werr \in WriteErrors :
                      IF req /\ werr # "nil"
                      THEN /\ fcErr' = werr
                           /\ fcPc' = "returned"
                           /\ fcByte' = rd.b
                           /\ fcBit' = bit
                           /\ UNCHANGED <<fcIter, bytesToTransfer, bytesTransferred,
                                          fcOut, fcReports>>
                      ELSE /\ fcOut' = IF req THEN Append(fcOut, ChunkInfoOf(key)) ELSE fcOut
                           /\ bytesTransferred' =
                                  IF req THEN bytesTransferred + SizeOf(key) ELSE bytesTransferred
                           /\ bytesToTransfer' =
                                  IF req THEN bytesToTransfer ELSE AfterSkip(bytesToTransfer, SizeOf(key))
                           /\ fcReports' =
                                  IF fcCb THEN Append(fcReports, <<bytesToTransfer', bytesTransferred'>>)
                                  ELSE fcReports
                           /\ fcByte' = (rd.b * 2) % 256
                           /\ fcBit' = bit + 1
                           /\ fcIter' = fcIter + 1
                           /\ UNCHANGED <<fcErr, fcPc>>
    /\ UNCHANGED <<fcFile, fcCb, fcWishIn, fcWishEnd>>
    /\ UNCHANGED notFcVars

\* forEachChunk after the loop: the wishlist must be at its end.
forEachChunkEnd ==
    /\ fcPc = "loop"
    /\ fcIter = Len(fcFile)
    /\ LET rd == ReadByte(fcWish, fcWishEnd)
       IN  /\ fcErr' = IF WishlistTooLong(rd) THEN "Wishlist too long" ELSE "nil"
           /\ fcWish' = IF fcWish # <<>> THEN Tail(fcWish) ELSE fcWish
    /\ fcPc' = "returned"
    /\ UNCHANGED <<fcFile, fcCb, fcWishIn, fcWishEnd, fcByte, fcBit, fcIter,
                   bytesToTransfer, bytesTransferred, fcOut, fcReports>>
    /\ UNCHANGED notFcVars

FcInit ==
    /\ \E file \in SendFiles, cb \in BOOLEAN, end \in {"eof", "error"},
          wish \in SeqsUpTo(WishBytes, MaxWishLen) :
           /\ fcFile = file
           /\ fcCb = cb
           /\ fcWishIn = wish
           /\ fcWish = wish
           /\ fcWishEnd = end
    /\ fcByte = 0
    /\ fcBit = 8
    /\ fcIter = 0
    /\ bytesToTransfer = 0
    /\ bytesTransferred = 0
    /\ fcOut = <<>>
    /\ fcReports = <<>>
    /\ fcErr = "running"
    /\ fcPc = "start"

InitSender == FcInit /\ JsIdle /\ InvIdle /\ LgIdle /\ RawIdle /\ StrIdle /\ StoreIdle /\ SessionIdle

NextSender ==
    \/ WriteRequestedChunks
    \/ forEachChunk
    \/ forEachChunkEnd

SpecSender == InitSender /\ [][NextSender]_vars

\* The number of wishlist bytes read so far.
FcBytesRead == Len(fcWishIn) - Len(fcWish)

(***************************************************************************)
(* C21: the sender fails if the wishlist ends before one bit has been read *)
(* for every chunk of the file.  Every chunk the loop has passed had its   *)
(* bit in a byte that was read; when the next byte is missing the call     *)
(* returns the wishlist-too-short error at once, with no record written    *)
(* for that chunk; a call with a wishlist of fewer than ceil(nChunks/8)    *)
(* bytes never returns nil.                                                *)
(***************************************************************************)
C21_MissingBitIsFatal ==
    /\ [](fcIter <= 8 * FcBytesRead /\ Len(fcOut) <= fcIter)
    /\ []((fcPc = "returned" /\ 8 * Len(fcWishIn) < Len(fcFile))
              => fcErr \in {"Wishlist too short", "write error"})
    /\ [][(fcPc = "loop" /\ fcIter < Len(fcFile) /\ fcBit = 8 /\ fcWish = <<>>)
              => (/\ fcErr' = "Wishlist too short"
                  /\ fcPc' = "returned"
                  /\ fcOut' = fcOut
                  /\ fcIter' = fcIter)]_vars

\* The wishlist ended after its first byte, with chunks sent, in a file of
\* more than eight chunks.
C21_Witness ==
    /\ fcErr = "Wishlist too short"
    /\ fcIter = 8
    /\ Len(fcFile) > 8
    /\ fcOut # <<>>

\* Bit i (from 1) of the wishlist as given, most significant bit of a byte first.
WishBitAt(i) == Requested((fcWishIn[((i - 1) \div 8) + 1] * (2 ^ ((i - 1) % 8))) % 256)

\* The records of the chunks among the first n whose wishlist bit is set.
RECURSIVE RequestedRecords(_)
RequestedRecords(n) ==
    IF n = 0 THEN <<>>
    ELSE IF WishBitAt(n) THEN Append(RequestedRecords(n - 1), ChunkInfoOf(fcFile[n]))
    ELSE RequestedRecords(n - 1)

\* The call has returned, and not because the writer failed.
FcReturned == fcPc = "returned" /\ fcErr # "write error"

(***************************************************************************)
(* C22 as stated: the sender accepts every wishlist of at least            *)
(* ceil(nChunks/8) bytes; whatever follows the bit of the last chunk,      *)
(* padding bits and further bytes, does not make the transmission fail.    *)
(***************************************************************************)
C22_AtLeastEnoughBytesAccepted ==
    (FcReturned /\ fcWishEnd = "eof" /\ Len(fcWishIn) >= CeilDiv8(Len(fcFile)))
        => fcErr = "nil"

(***************************************************************************)
(* C22, amended: the sender accepts a wishlist of exactly                  *)
(* ceil(nChunks/8) bytes followed by the end of the stream, whatever its   *)
(* padding bits are, and writes the chunks whose bits are set; if a        *)
(* further byte follows, or the read after the last chunk fails otherwise, *)
(* it returns the wishlist-too-long error, after all the requested chunks  *)
(* have been written.                                                      *)
(***************************************************************************)
C22_ExactlyEnoughBytesAccepted ==
    (FcReturned /\ Len(fcWishIn) >= CeilDiv8(Len(fcFile)))
        => /\ fcErr = "nil" <=> (Len(fcWishIn) = CeilDiv8(Len(fcFile)) /\ fcWishEnd = "eof")
           /\ fcErr \in {"nil", "Wishlist too long"}
           /\ fcIter = Len(fcFile)
           /\ fcOut = RequestedRecords(Len(fcFile))

\* A wishlist with a byte too many was refused after a chunk had been sent.
C22_Witness ==
    /\ fcErr = "Wishlist too long"
    /\ fcWishEnd = "eof"
    /\ Len(fcWishIn) > CeilDiv8(Len(fcFile))
    /\ fcOut # <<>>

\* The handles on the chunk `key` that the memo queue and WriteWishList hold.
HeldByWishList(key) ==
    Cardinality({i \in 1..Len(memos) : memos[i].file = Handle(key)})
        + (IF wlMem.file = Handle(key) THEN 1 ELSE 0)

(***************************************************************************)
(* C23: whenever ReconstructFileFromRequestedChunks returns an error,      *)
(* every chunk handle it had obtained has been disposed exactly once and   *)
(* the Temporary is disposed: no reference count ever drops below zero,    *)
(* and once the task has returned an error the references left on each     *)
(* chunk are exactly those of the handles that the memo queue and          *)
(* WriteWishList still hold.                                               *)
(***************************************************************************)
C23_HandlesReleasedOnError ==
    /\ \A key \in Keys : refsB[key] >= 0
    /\ (recPc = "returned" /\ recErr # "nil") =>
           /\ \A key \in Keys : refsB[key] = HeldByWishList(key)
           /\ temp = NewTemporary
           /\ fileB = <<>>

\* The task failed on a write to the Temporary after it had received a chunk,
\* while the queue still held a handle.
C23_Witness ==
    /\ recPc = "returned"
    /\ recErr = "write error"
    /\ \E i \in 1..Len(lookups) : lookups[i].ci.Key \in presentB /\ ~lookups[i].present
    /\ \E key \in Keys : HeldByWishList(key) > 0

(***************************************************************************)
(* shuffle.go: Permutation.Inverse on its own, applied to a permutation    *)
(* and then to its result.                                                 *)
(***************************************************************************)
InvInit ==
    /\ invP \in PermsUpTo(MaxInvLen)
    /\ invQ = <<>>
    /\ invR = <<>>
    /\ invPc = 0

\* q := p.Inverse()
PermInverse ==
    /\ invPc = 0
    /\ invQ' = Inverse(invP)
    /\ invPc' = 1
    /\ UNCHANGED <<invP, invR>>
    /\ UNCHANGED notInvVars

\* r := q.Inverse()
PermInverseAgain ==
    /\ invPc = 1
    /\ invR' = Inverse(invQ)
    /\ invPc' = 2
    /\ UNCHANGED <<invP, invQ>>
    /\ UNCHANGED notInvVars

InitInverse ==
    InvInit /\ RawIdle /\ StrIdle /\ StoreIdle /\ SessionIdle /\ JsIdle /\ FcIdle /\ LgIdle

NextInverse == PermInverse \/ PermInverseAgain

SpecInverse == InitInverse /\ [][NextInverse]_vars

\* p is a permutation of [0, Len(p)).
IsPermutation(p) ==
    \A v \in 0..(Len(p) - 1) : Cardinality({j \in 1..Len(p) : p[j] = v}) = 1

(***************************************************************************)
(* C24: for every permutation p of [0,k), q = p.Inverse() is a permutation *)
(* of [0,k) and q[p[i]] = (k-1+i) mod k for every i in [0,k); Inverse      *)
(* does not modify p.                                                      *)
(***************************************************************************)
C24_InverseIsShiftedInverse ==
    /\ [](invPc >= 1 =>
            LET k == Len(invP)
            IN  /\ Len(invQ) = k
                /\ IsPermutation(invQ)
                /\ \A i \in 0..(k - 1) : invQ[invP[i + 1] + 1] = (k - 1 + i) % k)
    /\ [][invP' = invP]_vars

\* Inverse was applied to a permutation of length 4 that moves every position.
C24_Witness ==
    /\ invPc = 1
    /\ Len(invP) = 4
    /\ \A i \in 0..3 : invP[i + 1] # i
    /\ invQ # invP

\* p rotated by n positions: the element at position i + n comes to position i.
Rotated(p, n) == [i \in 1..Len(p) |-> p[((i - 1 + n) % Len(p)) + 1]]

(***************************************************************************)
(* C26 as stated: for every permutation p of length k,                     *)
(* p.Inverse().Inverse() equals p rotated by k-1 positions (in one         *)
(* direction or the other).                                                *)
(***************************************************************************)
C26_DoubleInverseIsRotation ==
    invPc = 2 => invR \in {Rotated(invP, Len(invP) - 1), Rotated(invP, 1)}

(***************************************************************************)
(* C26, amended: for every permutation p of length k, r =                  *)
(* p.Inverse().Inverse() is p with its positions and its values both       *)
(* rotated by k-1: r[(i+k-1) mod k] = (p[i]+k-1) mod k for every i.        *)
(***************************************************************************)
C26_DoubleInverseIsConjugate ==
    invPc = 2 =>
        LET k == Len(invP)
        IN  /\ Len(invR) = k
            /\ \A i \in 0..(k - 1) : invR[((i + k - 1) % k) + 1] = (invP[i + 1] + k - 1) % k

\* Inverse was applied twice to a permutation of length 4, and the result is
\* neither the permutation nor a rotation of it.
C26_Witness ==
    /\ invPc = 2
    /\ Len(invP) = 4
    /\ \A n \in 0..3 : invR # Rotated(invP, n)

Count(q, v) == Cardinality({i \in 1..Len(q) : q[i] = v})

(***************************************************************************)
(* C27: for a forward StreamShuffler of length k whose consumer returns no *)
(* error, every Put invokes the consumer exactly once, with a value or     *)
(* with the placeholder, and End invokes it exactly k-1 times; a stream of *)
(* n elements gives n+k-1 consumer calls, in which every input element     *)
(* appears exactly once and the other k-1 calls carry the placeholder.     *)
(***************************************************************************)
C27_ConsumerCalls ==
    /\ [][(strPhase = "shuffle" /\ strPhase' = "shuffle")
              => Len(shuffled') = Len(shuffled) + 1]_vars
    /\ [][(strPhase = "shuffle" /\ strPhase' # "shuffle")
              => Len(shuffled') = Len(shuffled) + Len(strPerm) - 1]_vars
    /\ [](\A i \in 1..Len(shuffled) : shuffled[i] \in Vals \cup {TestPlaceholder})
    /\ [](strPhase = "shuffle" => Len(shuffled) = strPos)
    /\ [](strPhase \in {"unshuffle", "done"} =>
              /\ Len(shuffled) = Len(original) + Len(strPerm) - 1
              /\ \A v \in Vals : Count(shuffled, v) = Count(original, v)
              /\ Count(shuffled, TestPlaceholder) = Len(strPerm) - 1)

\* End has run on a stream shorter than the permutation, and a placeholder
\* came before a value.
C27_Witness ==
    /\ strPhase = "unshuffle"
    /\ strPos = 0
    /\ Len(strPerm) = 3
    /\ Len(original) = 2
    /\ shuffled[1] = TestPlaceholder
    /\ shuffled[2] \in Vals

\* The sizes of the chunks among the first n whose wishlist bit is clear.
RECURSIVE SkippedSize(_)
SkippedSize(n) ==
    IF n = 0 THEN 0
    ELSE SkippedSize(n - 1) + (IF WishBitAt(n) THEN 0 ELSE SizeOf(fcFile[n]))

\* The sizes of the chunks among the first n whose wishlist bit is set.
RECURSIVE SentSize(_)
SentSize(n) ==
    IF n = 0 THEN 0
    ELSE SentSize(n - 1) + (IF WishBitAt(n) THEN SizeOf(fcFile[n]) ELSE 0)

(***************************************************************************)
(* C29: with a status callback, the first report is (file size, 0); the    *)
(* report after the i-th chunk is (file size minus the sizes of the        *)
(* chunks skipped among the first i, the sizes of the chunks sent among    *)
(* the first i); in every report bytesTransferred <= bytesToTransfer, and  *)
(* in the last report of a call that returned nil the two are equal.       *)
(* Without a callback nothing is reported.                                 *)
(***************************************************************************)
C29_StatusReports ==
    /\ ~fcCb => fcReports = <<>>
    /\ (fcCb /\ fcPc # "start") =>
          /\ Len(fcReports) = fcIter + 1
          /\ fcReports[1] = <<FileSize(fcFile), 0>>
          /\ \A i \in 1..fcIter :
                fcReports[i + 1] = <<FileSize(fcFile) - SkippedSize(i), SentSize(i)>>
          /\ \A i \in 1..Len(fcReports) : fcReports[i][2] <= fcReports[i][1]
          /\ (fcPc = "returned" /\ fcErr = "nil") =>
                fcReports[Len(fcReports)][1] = fcReports[Len(fcReports)][2]

\* A call with a callback returned nil after it had skipped one chunk and
\* sent another.
C29_Witness ==
    /\ fcCb
    /\ fcPc = "returned"
    /\ fcErr = "nil"
    /\ \E i, j \in 1..Len(fcFile) : WishBitAt(i) /\ ~WishBitAt(j)
    /\ Len(fcReports) = Len(fcFile) + 1
    /\ fcReports[Len(fcReports)][1] < FileSize(fcFile)
    /\ fcReports[Len(fcReports)][2] > 0

(***************************************************************************)
(* SyncInfo.ReadFromLegacyStream on its own: a SyncInfo{} and a stream of  *)
(* key/size records that ends at a record boundary, inside a key, inside   *)
(* a size or with a read error.  The caller may call                       *)
(* SetTrivialPermutation before or after reading, or not at all.           *)
(***************************************************************************)
\* The records of a legacy stream: a key and any size.
LegacyRecords == {[Key |-> key, Size |-> size] : key \in Keys, size \in {-1, 1, MAX_CHUNK, MAX_CHUNK + 1}}

LegacyEnds == {"eof", "eofInKey", "eofInLength", "error"}

\* readChunkLength on the size of a record.
ReadChunkLengthError(size) ==
    IF size < 0 \/ size > MAX_CHUNK THEN "error reading size of chunk" ELSE "nil"

\* The loop of ReadFromLegacyStream at the end of the stream: io.ReadFull
\* returns io.EOF only if no byte of a key could be read.
LegacyEndAlwaysEof(end) == "nil"

LegacyEnd(end) ==
    CASE end = "eof" -> "nil"
      [] end = "eofInKey" -> "error reading chunk hash"
      [] end = "error" -> "error reading chunk hash"
      [] end = "eofInLength" -> "error reading size of chunk"

LgInit ==
    /\ lgIn \in SeqsUpTo(LegacyRecords, MaxLegacyLen)
    /\ lgStream = lgIn
    /\ lgEnd \in LegacyEnds
    /\ lgInfo = [Chunks |-> <<>>, Perm |-> <<>>]
    /\ lgErr = "running"
    /\ lgPc = "new"

\* s.SetTrivialPermutation(), called by the user of the SyncInfo
SetTrivialPermutation ==
    /\ lgPc \in {"new", "returned"}
    /\ lgInfo.Perm # <<0>>
    /\ lgInfo' = [lgInfo EXCEPT !.Perm = <<0>>]
    /\ UNCHANGED <<lgIn, lgStream, lgEnd, lgErr, lgPc>>
    /\ UNCHANGED notLgVars

\* One iteration of the loop of ReadFromLegacyStream.
ReadFromLegacyStream ==
    /\ lgPc \in {"new", "read"}
    /\ IF lgStream # <<>>
       THEN LET rec == Head(lgStream)
                err == ReadChunkLengthError(rec.Size)
            IN  /\ lgStream' = Tail(lgStream)
                /\ IF err # "nil"
                   THEN /\ lgErr' = err
                        /\ lgPc' = "returned"
                        /\ UNCHANGED lgInfo
                   ELSE /\ lgInfo' = [lgInfo EXCEPT !.Chunks = Append(@, [Key |-> rec.Key, Size |-> rec.Size])]
                        /\ lgPc' = "read"
                        /\ UNCHANGED lgErr
       ELSE /\ lgErr' = LegacyEnd(lgEnd)
            /\ lgPc' = "returned"
            /\ UNCHANGED <<lgStream, lgInfo>>
    /\ UNCHANGED <<lgIn, lgEnd>>
    /\ UNCHANGED notLgVars

InitLegacy ==
    LgInit /\ RawIdle /\ StrIdle /\ StoreIdle /\ SessionIdle /\ JsIdle /\ FcIdle /\ InvIdle

NextLegacy == SetTrivialPermutation \/ ReadFromLegacyStream

SpecLegacy == InitLegacy /\ [][NextLegacy]_vars

\* ReadFromLegacyStream has returned nil.
LgRead == lgPc = "returned" /\ lgErr = "nil"

(***************************************************************************)
(* C28 as stated: after ReadFromLegacyStream has read a legacy manifest    *)
(* stream into a fresh SyncInfo, the chunk list is the sequence of         *)
(* records of the stream in order and the permutation is the trivial       *)
(* permutation [0].                                                        *)
(***************************************************************************)
C28_LegacyImpliesTrivialPermutation ==
    LgRead => (lgInfo.Chunks = lgIn /\ lgInfo.Perm = <<0>>)

(***************************************************************************)
(* C28, amended: after ReadFromLegacyStream has returned nil, the chunk    *)
(* list of a fresh SyncInfo is the sequence of records of the stream in    *)
(* order, and the stream ended at a record boundary; reading leaves the    *)
(* permutation as it was, so it is [0] exactly if the user of the SyncInfo *)
(* has called SetTrivialPermutation, and empty otherwise.                  *)
(***************************************************************************)
C28_LegacyLeavesPermutation ==
    /\ [](LgRead => (lgInfo.Chunks = lgIn /\ lgStream = <<>> /\ lgEnd = "eof"))
    /\ [](lgInfo.Perm \in {<<>>, <<0>>})
    /\ [][(lgStream' # lgStream \/ lgErr' # lgErr) => lgInfo'.Perm = lgInfo.Perm]_vars
    /\ [][lgInfo'.Perm # lgInfo.Perm => (lgInfo'.Perm = <<0>> /\ UNCHANGED <<lgStream, lgErr, lgPc>>)]_vars

\* A stream of two records was read into a SyncInfo{} whose permutation
\* nobody had set.
C28_Witness ==
    /\ LgRead
    /\ Len(lgInfo.Chunks) = 2
    /\ lgInfo.Perm = <<>>

(***************************************************************************)
(* A session on a store that other users share: between any two steps of   *)
(* the session the store may clear the chunks nobody holds a handle to     *)
(* (BoundedStorage.FreeCache, or the eviction done by an insert that needs *)
(* the space).                                                             *)
(***************************************************************************)
\* FreeCache of the receiver's store: clears any data that is not locked.
FreeCache ==
    /\ \E key \in presentB : refsB[key] = 0
    /\ presentB' = {key \in presentB : refsB[key] > 0}
    /\ UNCHANGED <<builderVars, refsB, wlVars, wlHistory, notSessionVars>>

InitEvict ==
    /\ \E file \in DisposeFiles, perm \in PermsUpTo(MaxDisposeK), present \in SUBSET Keys :
           BuilderInit(file, perm, present) /\ PeerInit(file, perm)
    /\ RawIdle
    /\ StrIdle
    /\ StoreIdle
    /\ JsIdle /\ InvIdle /\ LgIdle /\ FcIdle

NextEvict ==
    \/ WLStart
    \/ WLConsume
    \/ WLEnqueue
    \/ WLFlush
    \/ SenderStart
    \/ SenderStep
    \/ SenderReturn
    \/ SenderExit
    \/ RecSelect
    \/ RecRead
    \/ FreeCache

SpecEvict == InitEvict /\ [][NextEvict]_vars

\* The iteration that takes the memo at the head of the queue goes on to
\* storage.Get without reading a chunk: the memo holds a handle, or its key
\* is a repeated one.
LooksUpMemo ==
    /\ recPc = "select"
    /\ memos # <<>>
    /\ memos' = Tail(memos)
    /\ Head(memos).ci # emptyChunkInfo
    /\ ~Head(memos).requested

(***************************************************************************)
(* C30 as stated: whenever the reconstruct task looks up a memo's chunk in *)
(* the store the chunk is present, also for a repeated key whose memo      *)
(* holds no handle and was not requested, and while the store may evict    *)
(* unreferenced chunks; so a session that succeeds returns a file with     *)
(* every chunk of the source.                                              *)
(***************************************************************************)
C30_LookupNeverFails ==
    /\ [][LooksUpMemo => Head(memos).ci.Key \in presentB]_vars
    /\ [](SessionSucceeded => fileB = fileA)

(***************************************************************************)
(* What does hold of C30: a chunk somebody holds a handle to is in the     *)
(* store, so the lookup for a memo that holds a handle, and the lookup     *)
(* made while the File that readChunk returned is held, find the chunk.    *)
(***************************************************************************)
C30_HeldChunkIsPresent ==
    /\ [](\A key \in Keys : refsB[key] > 0 => key \in presentB)
    /\ [][(LooksUpMemo /\ Head(memos).file # Nil) => Head(memos).ci.Key \in presentB]_vars

\* The task returned a file of one chunk for a source file that has the
\* same chunk twice: the lookup for the second memo found nothing, and
\* every call returned nil.
C30_Witness ==
    /\ SessionSucceeded
    /\ fileA = <<1, 1>>
    /\ fileB = <<1>>
    /\ 1 \in presentB

(***************************************************************************)
(* C31: Dispose and the start of WriteWishList are serialized by the       *)
(* Builder's mutex.  Either WriteWishList finds the Builder disposed: it   *)
(* returns ErrDisposed, has enqueued no memo and has not closed the queue, *)
(* and Dispose, which saw the Builder unstarted, returns without draining. *)
(* Or Dispose finds the Builder started: it drains the queue and returns   *)
(* only when WriteWishList has closed it.  Once both have returned the     *)
(* queue holds no memo with a chunk handle.                                *)
(***************************************************************************)
C31_DisposeAndStartSerialize ==
    /\ (wlPc = "returned" /\ ~started) =>
           /\ disposed
           /\ wlErr = "disposed"
           /\ nEnqueued = 0
           /\ ~memosClosed
    /\ (disposed /\ ~started) => dPc = "returned"
    /\ (disposed /\ started) => dPc \in {"drain", "returned"}
    /\ (disposed /\ started /\ dPc = "returned") => (memosClosed /\ wlPc = "returned")
    /\ (disposed /\ wlPc = "returned" /\ dPc = "returned") =>
           \A i \in 1..Len(memos) : memos[i].file = Nil

\* Dispose found the Builder started and has returned after WriteWishList,
\* which had enqueued memos and was then stopped by the disposal.
C31_Witness ==
    /\ disposed /\ started
    /\ dPc = "returned"
    /\ wlPc = "returned"
    /\ wlErr # "nil"
    /\ nEnqueued >= 2

\* Slot `slot` (from 0) of the buffer of shuffler sh holds a value that Put
\* has not returned yet.  Put number i of a round writes slot perm[i] and then
\* returns slot i, and leaves the value it returns in the buffer.
SlotLive(sh, slot) ==
    LET w == CHOOSE j \in 0..(Len(sh.perm) - 1) : sh.perm[j + 1] = slot
    IN  IF w <= slot THEN w < sh.idx /\ sh.idx <= slot
        ELSE sh.idx <= slot \/ sh.idx > w

\* The handles on the chunk `key` that somebody holds: the memos in the
\* queue, the memo WriteWishList is about to enqueue, the unshuffler's
\* buffer, the Temporary and the file the reconstruct task returned.
Holders(key) ==
    Cardinality({i \in 1..Len(memos) : memos[i].file = Handle(key)})
    + (IF wlMem.file = Handle(key) THEN 1 ELSE 0)
    + Cardinality({i \in DOMAIN unshuffler.buffer :
                      unshuffler.buffer[i] = Handle(key) /\ SlotLive(unshuffler, i - 1)})
    + Cardinality({i \in 1..Len(temp.chunks) : temp.chunks[i] = key})
    + Cardinality({i \in 1..Len(fileB) : fileB[i] = key})

\* WriteWishList, the reconstruct task and Dispose have returned.
AllReturned == wlPc = "returned" /\ recPc = "returned" /\ dPc = "returned"

(***************************************************************************)
(* C32: every handle WriteWishList takes from the store for a memo is      *)
(* disposed exactly once, by the reconstruct iteration that dequeues the   *)
(* memo, by Dispose's drain, or by WriteWishList itself when the enqueue   *)
(* is aborted, in every interleaving of the three.  At every moment the    *)
(* reference count of a chunk is the number of handles held on it (by the  *)
(* queue, by WriteWishList, by the unshuffler, the Temporary and the file  *)
(* returned), so no handle is disposed twice; when all three have          *)
(* returned no memo handle is left: what remains belongs to the file       *)
(* returned.                                                               *)
(***************************************************************************)
C32_MemoHandlesDisposedOnce ==
    /\ \A key \in Keys : refsB[key] >= 0 /\ refsB[key] = Holders(key)
    /\ AllReturned =>
           /\ \A i \in 1..Len(memos) : memos[i].file = Nil
           /\ wlMem.file = Nil
           /\ refsB = FileRefs(fileB)
           /\ recErr # "nil" => \A key \in Keys : refsB[key] = 0

\* All three have returned; WriteWishList had taken handles, was stopped by
\* the disposal, and the reconstruct task had taken a memo before it was
\* stopped as well.
C32_Witness ==
    /\ AllReturned
    /\ started
    /\ \E i \in 1..Len(lookups) : lookups[i].present /\ lookups[i].ci # emptyChunkInfo
    /\ Len(lookups) > nEnqueued
    /\ recErr = "disposed"
    /\ nEnqueued >= 2

(***************************************************************************)
(* SpecDisposeLive: SpecDispose with the scheduling of the goroutines.  A   *)
(* WriteWishList that has started goes on whenever it can (its writes to   *)
(* the wishlist never block here), and so does a Dispose call that drains  *)
(* the queue.  Nothing is assumed of the reconstruct task.                 *)
(***************************************************************************)
SpecDisposeLive ==
    /\ SpecDispose
    /\ WF_vars(WLConsume)
    /\ WF_vars(WLEnqueue)
    /\ WF_vars(WLFlush)
    /\ WF_vars(DisposeDrain)
    /\ WF_vars(DisposeReturn)

(***************************************************************************)
(* C34: a Dispose call on a Builder whose WriteWishList has started        *)
(* returns only after WriteWishList has closed the memo queue, and it      *)
(* does return if WriteWishList is not blocked forever writing its output: *)
(* a WriteWishList waiting on the memo queue is released, by the done      *)
(* signal or by Dispose's draining of the queue, and returns.              *)
(***************************************************************************)
C34_DisposeReturnsAfterClose ==
    /\ []((started /\ dPc = "returned") => (memosClosed /\ memos = <<>>))
    /\ [][(dPc = "drain" /\ dPc' = "returned") => (memosClosed /\ wlPc = "returned")]_vars
    /\ (dPc = "drain") ~> (dPc = "returned")
    /\ (disposed /\ started) ~> (wlPc = "returned")

\* Dispose has returned; WriteWishList had enqueued more memos than the queue
\* holds while the reconstruct task had taken none: it waited on the full
\* queue and the drain let it go on.
C34_Witness ==
    /\ started
    /\ dPc = "returned"
    /\ nEnqueued > WindowSize
    /\ recPc = "select"
    /\ unshuffler = NewShuffler(Inverse(syncinf.Perm))

(***************************************************************************)
(* C35: at every moment of a session the memo queue holds at most          *)
(* windowSize memos (enqueued by WriteWishList, not yet taken by the       *)
(* reconstruct task or by Dispose).  A memo is added only when the queue   *)
(* holds fewer; with a full queue and done open WriteWishList stays where  *)
(* it is.                                                                  *)
(***************************************************************************)
C35_QueueWithinWindow ==
    /\ [](Len(memos) <= WindowSize)
    /\ [][Len(memos') > Len(memos) =>
              /\ Len(memos) < WindowSize
              /\ memos' = Append(memos, wlMem)
              /\ nEnqueued' = nEnqueued + 1]_vars
    /\ [][(wlPc = "enqueue" /\ Len(memos) = WindowSize /\ ~done) =>
              UNCHANGED <<wlVars, wlHistory>>]_vars

\* WriteWishList waits with a memo while the queue is full, after the
\* reconstruct task has taken memos before.
C35_Witness ==
    /\ wlPc = "enqueue"
    /\ Len(memos) = WindowSize
    /\ ~done
    /\ nEnqueued > WindowSize

\* The key of the position consumeFunc is called for has been seen at an
\* earlier position of this run.
SeenBefore(key) == \E j \in 1..Len(lookups) : lookups[j].ci.Key = key

(***************************************************************************)
(* C37: within one WriteWishList run, for every chunk key at most one      *)
(* wishlist bit is 1 and at most one memo holds a store handle for the     *)
(* key: only the first occurrence of a key in shuffled order is requested  *)
(* or gets a handle; every later occurrence gets requested = false and no  *)
(* handle, and so does a placeholder position, whose bit is never 1.       *)
(***************************************************************************)
C37_OneRequestPerKey ==
    /\ [](\A i \in 1..Len(wishBits) :
              /\ lookups[i].ci.Key = emptyKey => ~wishBits[i]
              /\ \A j \in 1..(i - 1) : lookups[j].ci.Key = lookups[i].ci.Key => ~wishBits[i])
    /\ [][(wlPc = "put" /\ wlPc' = "enqueue") =>
              LET ci == wlMem'.ci
              IN  /\ lookups' = Append(lookups, [ci |-> ci, present |-> ci.Key \in presentB])
                  /\ (SeenBefore(ci.Key) \/ ci.Key = emptyKey) =>
                         (wlMem'.file = Nil /\ ~wlMem'.requested)
                  /\ wlMem'.file # Nil =>
                         /\ wlMem'.file = Handle(ci.Key)
                         /\ ~wlMem'.requested
                         /\ refsB' = [refsB EXCEPT ![ci.Key] = @ + 1]
                  /\ wlMem'.file = Nil => refsB' = refsB]_vars
    /\ [][wishBits' # wishBits => wishBits' = Append(wishBits, wlMem.requested)]_vars

\* A complete run over a manifest in which a key found in the store and a
\* key missing from it both occur again later.
C37_Witness ==
    /\ wlErr = "nil"
    /\ \E i, j \in 1..Len(wishBits) :
          /\ i < j
          /\ lookups[i].ci.Key = lookups[j].ci.Key
          /\ lookups[i].ci.Key # emptyKey
          /\ lookups[i].present /\ lookups[j].present
    /\ \E i, j \in 1..Len(wishBits) :
          /\ i < j
          /\ lookups[i].ci.Key = lookups[j].ci.Key
          /\ wishBits[i]
    /\ \E i \in 1..Len(wishBits) : lookups[i].ci = emptyChunkInfo

\* The positions of the shuffled manifest, among those looked up so far,
\* that hold the sentinel.
PlaceholderPositions == {i \in 1..Len(lookups) : lookups[i].ci = emptyChunkInfo}

(***************************************************************************)
(* C39: a WriteWishList call that returns without error has enqueued       *)
(* exactly nChunks + k - 1 memos (k the length of the permutation) and     *)
(* then closed the queue; exactly k - 1 of them are placeholder memos      *)
(* (info equal to the sentinel, requested = false, no handle).  For each   *)
(* placeholder memo it takes from the queue, the reconstruct task puts     *)
(* exactly one placeholder into the inverse shuffler and reads no chunk.   *)
(***************************************************************************)
C39_PlaceholderMemos ==
    /\ [](wlErr = "nil" =>
              /\ nEnqueued = NChunks + Len(syncinf.Perm) - 1
              /\ Len(lookups) = nEnqueued
              /\ Cardinality(PlaceholderPositions) = Len(syncinf.Perm) - 1
              /\ memosClosed)
    /\ [][nEnqueued' # nEnqueued =>
              /\ ~memosClosed /\ ~memosClosed'
              /\ nEnqueued' = nEnqueued + 1
              /\ memos' = Append(memos, wlMem)
              /\ wlMem.ci = lookups[Len(lookups)].ci
              /\ wlMem.ci = emptyChunkInfo => (wlMem.file = Nil /\ ~wlMem.requested)]_vars
    /\ [][(memos # <<>> /\ memos' = Tail(memos) /\ Head(memos).ci = emptyChunkInfo) =>
              \/ UNCHANGED reconVars
              \/ /\ unshuffler' = ShufflerPut(unshuffler, placeholder).s
                 /\ recPc = "select" /\ recPc' = "select"
                 /\ UNCHANGED <<pipe2, recErr, fileB>>]_vars
    /\ [][(ShufflerPut(unshuffler, placeholder).s = unshuffler' /\ recPc' = "select"
               /\ unshuffler' # unshuffler) =>
              (memos # <<>> /\ Head(memos).ci = emptyChunkInfo /\ memos' = Tail(memos))]_vars

\* A session that succeeded with a file shorter than the permutation: two
\* chunks, a permutation of length 3, four memos of which two placeholders.
C39_Witness ==
    /\ SessionSucceeded
    /\ NChunks = 2
    /\ Len(syncinf.Perm) = 3
    /\ nEnqueued = 4
    /\ Cardinality(PlaceholderPositions) = 2
    /\ fileB = fileA

\* The chunks appended to the output Temporary so far, in the order of the
\* appendChunk calls.
Appended == temp.chunks \o temp.pending

\* The keys of the manifest, in manifest order.
ManifestKeys == [i \in 1..NChunks |-> syncinf.Chunks[i].Key]

IsPrefix(p, q) == Len(p) <= Len(q) /\ \A i \in 1..Len(p) : p[i] = q[i]

BitOf(byte, p) == (byte \div (2 ^ p)) % 2 = 1

\* The i-th bit (i from 0) forEachChunk reads from the bytes: the top bit of
\* the byte after i mod 8 shifts.
SenderReads(bytes, i) == Requested((bytes[(i \div 8) + 1] * (2 ^ (i % 8))) % 256)

C40_BitsPackedMsbFirst ==
    /\ \A i \in 0..(Len(wishBits) - 1) :
          (i \div 8) < Len(wishOut) =>
              /\ wishBits[i + 1] = BitOf(wishOut[(i \div 8) + 1], 7 - (i % 8))
              /\ wishBits[i + 1] = SenderReads(wishOut, i)
    /\ Len(wishOut) = IF wlErr = "nil" THEN CeilDiv8(Len(wishBits))
                                       ELSE Len(wishBits) \div 8
    /\ \A i \in Len(wishBits)..(8 * Len(wishOut) - 1) :
          ~BitOf(wishOut[(i \div 8) + 1], 7 - (i % 8))

\* A complete wishlist of exactly eight bits: one byte and no padding byte,
\* the first bit set and the last not.
C40_Witness ==
    /\ wlErr = "nil"
    /\ Len(wishBits) = 8
    /\ Len(wishOut) = 1
    /\ wishBits[1]
    /\ ~wishBits[8]
    /\ wishOut[1] >= 128

(***************************************************************************)
(* SpecSync: the session of testWithParams over its two io.Pipe()s, which  *)
(* are synchronous: a Write returns when a Read has taken the data.  The   *)
(* Builder has the window of the test and is not disposed while the three  *)
(* tasks run.  consumeFunc is taken a step at a time: the send to b.memos, *)
(* then WriteBit, then (every eighth bit) the Write of the byte.  The      *)
(* sender reads the wishlist through a bufio.Reader, a byte when it needs  *)
(* a bit, and its Write of a chunk returns when readChunk has taken it.    *)
(***************************************************************************)
\* A window too small for the bits of one wishlist byte.
SyncQueueHasRoomForSix(q) == Len(q) < 6

SyncQueueHasRoom(q) == Len(q) < SyncWindowSize

\* The bit consumeFunc writes for a memo: bitWriter.WriteBit(mem.requested).
BitOfMemoAlwaysSet(mem) == TRUE

BitOfMemo(mem) == mem.requested

\* consumeFunc: select { case b.memos <- mem | case <-b.done }.
WLSend ==
    /\ wlPc = "enqueue"
    /\ \/ /\ SyncQueueHasRoom(memos)
          /\ memos' = Append(memos, wlMem)
          /\ nEnqueued' = nEnqueued + 1
          /\ wlPc' = "bit"
          /\ UNCHANGED <<refsB, wlErr, memosClosed, pipe1State>>
       \/ /\ done
          /\ refsB' = StoreDispose(refsB, wlMem.file)
          /\ wlErr' = IF wlIdx <= NChunks THEN "error from shuffler.Put: disposed"
                      ELSE "error from shuffler.End: disposed"
          /\ wlPc' = "returned"
          /\ memosClosed' = TRUE
          /\ pipe1State' = "error"
          /\ UNCHANGED <<memos, nEnqueued>>
    /\ UNCHANGED <<fileA, syncinf, done, disposed, started, presentB>>
    /\ UNCHANGED <<wlIdx, wlShuffler, requested, wlMem, bitWriter, pipe1>>
    /\ UNCHANGED <<lookups, wishBits, wishOut, notSessionVars>>

\* consumeFunc: return bitWriter.WriteBit(mem.requested).  The eighth bit
\* starts the Write of the byte to the wishlist pipe.
WLWriteBit ==
    /\ wlPc = "bit"
    /\ LET r == WriteBit(bitWriter, BitOfMemo(wlMem))
       IN  /\ bitWriter' = r.w
           /\ pipe1' = pipe1 \o r.out
           /\ wishOut' = wishOut \o r.out
           /\ wlPc' = IF r.out = <<>> THEN "put" ELSE "write"
    /\ wishBits' = Append(wishBits, BitOfMemo(wlMem))
    /\ wlMem' = zeroMemo
    /\ UNCHANGED <<builderVars, storeBVars, wlIdx, wlShuffler, requested, wlErr, pipe1State>>
    /\ UNCHANGED <<lookups, nEnqueued, notSessionVars>>

\* The Write of a byte returns when the sender has read it.
WLWriteDone ==
    /\ wlPc = "write"
    /\ pipe1 = <<>>
    /\ wlPc' = "put"
    /\ UNCHANGED <<builderVars, storeBVars, wlHistory, notSessionVars>>
    /\ UNCHANGED <<wlIdx, wlShuffler, requested, wlMem, bitWriter, wlErr, pipe1, pipe1State>>

\* After shuffler.End: bitWriter.Flush, which writes the last partial byte.
WLFlushBits ==
    /\ wlPc = "put"
    /\ wlIdx = NPositions
    /\ LET r == Flush(bitWriter)
       IN  /\ bitWriter' = r.w
           /\ pipe1' = pipe1 \o r.out
           /\ wishOut' = wishOut \o r.out
    /\ wlPc' = "flush"
    /\ UNCHANGED <<builderVars, storeBVars, wlIdx, wlShuffler, requested, wlMem, wlErr, pipe1State>>
    /\ UNCHANGED <<lookups, wishBits, nEnqueued, notSessionVars>>

\* Flush returned: the deferred close(b.memos), return nil, and the goroutine
\* closes the wishlist pipe.
WLReturn ==
    /\ wlPc = "flush"
    /\ pipe1 = <<>>
    /\ memosClosed' = TRUE
    /\ wlErr' = "nil"
    /\ wlPc' = "returned"
    /\ pipe1State' = "eof"
    /\ UNCHANGED <<fileA, syncinf, done, memos, disposed, started>>
    /\ UNCHANGED <<storeBVars, wlIdx, wlShuffler, requested, wlMem, bitWriter, pipe1>>
    /\ UNCHANGED <<wlHistory, notSessionVars>>

\* The sender's Write of a chunk returns when readChunk has taken it: the
\* sender goes on when the chunk pipe is empty.
SenderStepSync == pipe2 = <<>> /\ SenderStep

SenderReturnSync == pipe2 = <<>> /\ SenderReturn

InitSync ==
    /\ \E file \in ShortFiles \cup LongFiles, perm \in PermsUpTo(MaxK), present \in SUBSET Keys :
           BuilderInit(file, perm, present) /\ PeerInit(file, perm)
    /\ RawIdle
    /\ StrIdle
    /\ StoreIdle
    /\ JsIdle /\ InvIdle /\ LgIdle /\ FcIdle

NextSync ==
    \/ WLStart
    \/ WLConsume
    \/ WLSend
    \/ WLWriteBit
    \/ WLWriteDone
    \/ WLFlushBits
    \/ WLReturn
    \/ SenderStart
    \/ SenderStepSync
    \/ SenderReturnSync
    \/ SenderExit
    \/ RecSelect
    \/ RecRead

SpecSync == InitSync /\ [][NextSync]_vars

\* A task that can take a step is eventually scheduled: the session does not
\* stop while one of its three tasks can go on.
SpecSyncLive == SpecSync /\ WF_vars(NextSync)

AllReturnedNil ==
    /\ wlPc = "returned" /\ wlErr = "nil"
    /\ sPc = "exited" /\ sErr = "nil"
    /\ recPc = "returned" /\ recErr = "nil"

(***************************************************************************)
(* C33: a session with window size >= 8 that is never disposed, run over   *)
(* synchronous pipes with a sender that reads the wishlist bit of each     *)
(* shuffled position before handling that position, never deadlocks:       *)
(* under fair scheduling WriteWishList, the sender and                     *)
(* ReconstructFileFromRequestedChunks all eventually return, for every     *)
(* manifest length and every permutation length, fewer chunks than         *)
(* permutation entries included.                                           *)
(***************************************************************************)
C33_NoDeadlock ==
    /\ <>AllReturnedNil
    /\ [](AllReturnedNil \/ ENABLED NextSync)

\* The writer waits for the sender to read the first wishlist byte while the
\* reconstruct task waits for the chunk of the first position: the eight
\* memos of the byte are enqueued, one taken and seven in the queue.
C33_Witness ==
    /\ wlPc = "write"
    /\ pipe1 # <<>>
    /\ nEnqueued = 8
    /\ recPc = "read"
    /\ Len(memos) = 7
    /\ sIdx = 0

(***************************************************************************)
(* C36: in WriteWishList the memo of a shuffled position is enqueued       *)
(* before that position's bit is handed to the bit writer: at every moment *)
(* (bits written) <= (memos enqueued) <= (bits written) + 1, and the i-th  *)
(* memo and the i-th bit carry the same requested value for the same       *)
(* position; no bit of a position whose memo was not enqueued is ever      *)
(* written.                                                                *)
(***************************************************************************)
\* The shuffled position (from 1) of the j-th memo waiting in the queue.
PositionOfQueued(j) == nEnqueued - Len(memos) + j

C36_MemoBeforeBit ==
    /\ [](Len(wishBits) <= nEnqueued /\ nEnqueued <= Len(wishBits) + 1)
    /\ [](\A j \in 1..Len(memos) :
             /\ PositionOfQueued(j) \in 1..Len(lookups)
             /\ memos[j].ci = lookups[PositionOfQueued(j)].ci
             /\ PositionOfQueued(j) <= Len(wishBits) =>
                    wishBits[PositionOfQueued(j)] = memos[j].requested)
    /\ [][nEnqueued' = nEnqueued + 1 =>
              /\ nEnqueued = Len(wishBits)
              /\ memos' = Append(memos, wlMem)
              /\ wlMem' = wlMem
              /\ wlMem.ci = lookups[nEnqueued'].ci]_vars
    /\ [][Len(wishBits') = Len(wishBits) + 1 =>
              /\ nEnqueued = Len(wishBits) + 1
              /\ nEnqueued' = nEnqueued
              /\ wishBits'[Len(wishBits')] = wlMem.requested
              /\ wlMem.ci = lookups[Len(wishBits')].ci]_vars

\* The memo of a requested position is in the queue and its bit is not yet
\* written, after a position that was not requested.
C36_Witness ==
    /\ wlPc = "bit"
    /\ nEnqueued = Len(wishBits) + 1
    /\ wlMem.requested
    /\ memos # <<>>
    /\ memos[Len(memos)] = wlMem
    /\ \E i \in 1..Len(wishBits) : ~wishBits[i] /\ lookups[i].ci # emptyChunkInfo

====
